---- MODULE Spec2Model ----
(***************************************************************************)
(* Verification model of the InterviewTrainer core:                        *)
(*   - lib/loginRateLimit.ts and lib/registerRateLimit.ts (the two         *)
(*     per-IP rate limiters and their module-level stores),                *)
(*   - auth.ts (authorize) and app/api/auth/register/route.ts (POST),      *)
(*     the two authentication entry points,                                *)
(*   - lib/sm2.ts (calculateSM2),                                          *)
(*   - app/api/quiz/session/route.ts (POST) and                            *)
(*     app/api/quiz/questions/[topic]/route.ts (GET) with                  *)
(*     lib/questions-data.ts, the two quiz routes.                         *)
(* Limiter times are in milliseconds, review dates in days, ease factors   *)
(* in thousandths.                                                         *)
(***************************************************************************)
EXTENDS Integers, Sequences, FiniteSets, Bags, TLC

\* ---------------------------------------------------------------- bounds
\* largest number of clock advances in one behaviour
MaxTicks == 2
\* largest number of calls of one limiter when it is exercised alone
MaxCalls == 11
\* largest number of limiter calls when the limiters are exercised together or
\* by the route handlers
MaxCallsShared == 7
\* largest number of requests being handled at one time
MaxInFlight == 2
\* largest number of calculateSM2 calls fed with the result of the previous one
MaxChain == 3
\* longest array a shuffle is followed through every order of; of a longer
\* array the shuffles followed are its rotations
MaxShuffle == 4
\* largest maxQuestions interleaveQuestions is called with directly
MaxRequested == 5
\* largest number of times the quiz page is opened in one behaviour
MaxVisits == 2
\* largest number of answers the store is given between two startSession or
\* resetSession calls when its methods are called in any order
MaxAnswered == 2
\* largest number of graded answers submitted in one behaviour, over all the
\* submissions to POST /api/quiz/session
MaxAnswers == 2

\* ------------------------------------------------------- program constants
LOGIN_WINDOW_MS == 15 * 60 * 1000
LOGIN_MAX_ATTEMPTS == 10
REGISTER_WINDOW_MS == 15 * 60 * 1000
REGISTER_MAX_ATTEMPTS == 5

\* ----------------------------------------------------------- input domains
\* client keys (the ip argument)
Keys == {"ip1", "unknown"}
\* the two limiter modules
Limiters == {"login", "register"}
\* amounts by which the clock advances between two calls
TickSteps == {1, 1000, LOGIN_WINDOW_MS - 1}
\* amounts by which the clock advances between the Date.now() of pruneExpired
\* and the Date.now() of the check that follows it
ReadGaps == {0, 1}
\* values of the x-forwarded-for header, as the list of its comma-separated
\* entries; the empty list is a request without the header
Headers == {<<>>, <<"ip1">>, <<"ip1", "10.0.0.1">>}
Usernames == {"ann"}
\* request bodies of POST /api/auth/register: json is whether request.json()
\* resolves, wellFormed whether registerSchema.safeParse succeeds
Bodies == [json : BOOLEAN, wellFormed : BOOLEAN, username : Usernames]
\* credentials handed to authorize: wellFormed is whether
\* credentialsSchema.safeParse succeeds
Credentials == [wellFormed : BOOLEAN, username : Usernames]
\* arguments of calculateSM2; ease factors are in thousandths (2500 is 2.5), and
\* the stored values a corrupt record may hold are among them
Qualities == 0..5
PreviousIntervals == {-1, 0, 1, 6, 15}
PreviousRepetitions == {-1, 0, 1, 2, 3}
PreviousEFs == {500, 1300, 1304, 1700, 2180, 2500, 2505, 3000}
\* ids of the users
UserIds == {"u1", "u2"}
\* what getServerSession resolves to: no session, or the session of a user
NoSession == [user |-> [id |-> ""]]
Sessions == {NoSession, [user |-> [id |-> "u1"]]}
\* the questions graded in the submissions, and the grades given
SessionQuestionIds == {"d1"}
SessionQualities == Qualities
ResultItems == [questionId : SessionQuestionIds, quality : SessionQualities]
\* a query parameter: searchParams.get(name) is null (absent) or a string
Absent == [present |-> FALSE, value |-> <<>>]
Param(value) == [present |-> TRUE, value |-> value]
\* the topic segment of GET /api/quiz/questions/[topic], decoded; constructor
\* is a name every JavaScript object inherits from Object.prototype
Topics == {"Database", "JavaScript", "Remix", "Nope", "constructor"}
\* values of ?count=, as the list of their characters
CountParams ==
    {Absent, Param(<<"a", "b", "c">>), Param(<<"0">>), Param(<<"2">>),
     Param(<<"3", "x">>), Param(<<"3", "1">>)}
\* values of ?type=
TypeParams ==
    {[present |-> FALSE, value |-> ""], Param("mixed"), Param("QUIZ_SIMPLE"),
     Param("TRUE_FALSE"), Param("bogus")}
\* values of ?topics=, as the list of their comma-separated entries; pad is
\* whether blanks surround the key of the entry
Entry(pad, key) == [pad |-> pad, key |-> key]
TopicsParams ==
    {Absent, Param(<<Entry(FALSE, "")>>), Param(<<Entry(TRUE, "")>>),
     Param(<<Entry(FALSE, "Database")>>),
     Param(<<Entry(FALSE, "Database"), Entry(TRUE, "JavaScript")>>)}
\* the days a row's nextReview and the day of a request fall on
ReviewDays == {1, 2}
\* rows the UserProgress table may hold before the first submission: a sound
\* one and corrupt ones (interval < 1, easinessFactor < 1.3)
StoredProgress ==
    { [repetition |-> 2, interval |-> 6, easinessFactor |-> 2600, nextReview |-> 1],
      [repetition |-> 3, interval |-> 0, easinessFactor |-> 500, nextReview |-> 1],
      [repetition |-> 2, interval |-> -1, easinessFactor |-> 1000, nextReview |-> 1] }

VARIABLES
    now,            \* Date.now()
    loginStore,     \* store of lib/loginRateLimit.ts: ip -> {count, resetAt}
    registerStore,  \* store of lib/registerRateLimit.ts
    lastCall,       \* the latest limiter call: its arguments, clock reads and result
    win,            \* per limiter and key: the window the calls of that key define
    blockedLog,     \* per limiter and key: the blocked calls of the current window
    allowedLog,     \* per limiter and key: times of the allowed calls of the last 15 minutes
                    \* (recorded when one limiter is exercised alone)
    nTicks,         \* clock advances so far
    nCalls,         \* limiter calls so far
    underTest       \* what calls the limiters: direct callers of one module ("login",
                    \* "register") or of both ("both"), or the route handlers ("routes")

VARIABLES
    inflight,       \* bag of the requests being handled, each at an await
    lastResponse,   \* the request answered last
    users           \* usernames of the rows of the User table

limVars == <<now, loginStore, registerStore, lastCall, win, blockedLog,
             allowedLog, nTicks, nCalls, underTest>>
VARIABLES
    sm2Input,       \* the argument of the calculateSM2 call under way or made last
    sm2Result,      \* what that call returned
    chained,        \* how many calls so far were fed with the previous result
    chainLog        \* the calls made so far, oldest first: argument and result

VARIABLES
    userProgress,   \* the UserProgress table: <<userId, questionId>> -> row
    lastActivity,   \* the lastActivity column of the User table: userId -> day
    today,          \* new Date() in the quiz routes, in days
    posts,          \* bag of the POST /api/quiz/session requests being handled
    sessionResponse,\* the response to the submission answered last
    lastWrite,      \* the latest userProgress.upsert that succeeded
    nAnswers,       \* graded answers accepted so far
    accepted,       \* submissions that passed validation so far
    userUpdates,    \* calls of user.update made so far
    quizRequest,    \* the GET /api/quiz/questions/[topic] request being handled
    quizResponse    \* the response to it, once it is answered

VARIABLES
    mixCall,        \* the interleaveQuestions call made directly: arguments and outcome
    sessionQuestions,       \* the five fields of the game store
    currentQuestionIndex,
    score,
    isFinished,
    answeredResults,
    lastSet,        \* the store method that set the state last, with its arguments
    page,           \* the route shown and, on /quiz/[category], the state of QuizPage
                    \* (lastAnswerCorrect is null, "true" or "false")
    timers,         \* bag of the setTimeout callbacks of onAnswered still to run
    served,         \* what the latest fetch of the questions resolved with
    sent            \* the results the page posted to /api/quiz/session last

authVars == <<inflight, lastResponse, users>>
storeVars == <<sessionQuestions, currentQuestionIndex, score, isFinished,
               answeredResults, lastSet>>
pageVars == <<page, timers, served, sent>>
gameVars == <<mixCall, storeVars, pageVars>>
sessionVars == <<posts, sessionResponse, lastWrite, nAnswers, accepted, userUpdates>>
questionsVars == <<quizRequest, quizResponse>>
quizVars == <<userProgress, lastActivity, today, sessionVars, questionsVars>>
sm2Vars == <<sm2Input, sm2Result, chained, chainLog>>
vars == <<limVars, authVars, sm2Vars, quizVars, gameVars>>
\* the variables outside the limiters and the entry points
nonAuthVars == <<sm2Vars, quizVars, gameVars>>
\* the variables outside calculateSM2
nonSm2Vars == <<limVars, authVars, quizVars, gameVars>>
\* the variables outside the quiz routes
nonQuizVars == <<limVars, authVars, sm2Vars, gameVars>>
\* the variables outside the game store and the quiz page
nonGameVars == <<limVars, authVars, sm2Vars, quizVars>>

\* ------------------------------------------------------------- the limiter
WindowMs(l) == IF l = "login" THEN LOGIN_WINDOW_MS ELSE REGISTER_WINDOW_MS
MaxAttempts(l) == IF l = "login" THEN LOGIN_MAX_ATTEMPTS ELSE REGISTER_MAX_ATTEMPTS

\* Math.ceil(a / b) for an integer a and b > 0
Ceil(a, b) == -((-a) \div b)

\* the Map restricted to the keys of S (store.delete of the others)
Restrict(st, S) == [k \in (DOMAIN st) \cap S |-> st[k]]

\* store.set(ip, entry)
MapSet(st, ip, entry) == [k \in (DOMAIN st) \cup {ip} |-> IF k = ip THEN entry ELSE st[k]]

\* pruneExpired() emptying the store as soon as one entry has expired
pruneExpired_ClearAll(st, t) ==
    IF \E k \in DOMAIN st : t >= st[k].resetAt THEN <<>> ELSE st

\* pruneExpired(): delete every entry with now >= entry.resetAt
pruneExpired(st, t) == Restrict(st, {k \in DOMAIN st : ~(t >= st[k].resetAt)})

\* the check blocking only when count > MAX_ATTEMPTS
checkBody_OffByOne(st, ip, pruneNow, t, windowMs, maxAttempts) ==
    LET pruned == pruneExpired(st, pruneNow) IN
    IF ip \notin DOMAIN pruned \/ t >= pruned[ip].resetAt
    THEN [store  |-> MapSet(pruned, ip, [count |-> 1, resetAt |-> t + windowMs]),
          result |-> [allowed |-> TRUE]]
    ELSE IF pruned[ip].count > maxAttempts
    THEN [store  |-> pruned,
          result |-> [allowed |-> FALSE,
                      retryAfterSeconds |-> Ceil(pruned[ip].resetAt - t, 1000)]]
    ELSE [store  |-> MapSet(pruned, ip, [count   |-> pruned[ip].count + 1,
                                         resetAt |-> pruned[ip].resetAt]),
          result |-> [allowed |-> TRUE]]

\* the check taking a window as expired only when now > resetAt
checkBody_StrictExpiry(st, ip, pruneNow, t, windowMs, maxAttempts) ==
    LET pruned == pruneExpired(st, pruneNow) IN
    IF ip \notin DOMAIN pruned \/ t > pruned[ip].resetAt
    THEN [store  |-> MapSet(pruned, ip, [count |-> 1, resetAt |-> t + windowMs]),
          result |-> [allowed |-> TRUE]]
    ELSE IF pruned[ip].count >= maxAttempts
    THEN [store  |-> pruned,
          result |-> [allowed |-> FALSE,
                      retryAfterSeconds |-> Ceil(pruned[ip].resetAt - t, 1000)]]
    ELSE [store  |-> MapSet(pruned, ip, [count   |-> pruned[ip].count + 1,
                                         resetAt |-> pruned[ip].resetAt]),
          result |-> [allowed |-> TRUE]]

\* the check returning the seconds elapsed since the window opened
checkBody_ElapsedRetry(st, ip, pruneNow, t, windowMs, maxAttempts) ==
    LET pruned == pruneExpired(st, pruneNow) IN
    IF ip \notin DOMAIN pruned \/ t >= pruned[ip].resetAt
    THEN [store  |-> MapSet(pruned, ip, [count |-> 1, resetAt |-> t + windowMs]),
          result |-> [allowed |-> TRUE]]
    ELSE IF pruned[ip].count >= maxAttempts
    THEN [store  |-> pruned,
          result |-> [allowed |-> FALSE,
                      retryAfterSeconds |-> Ceil(t - (pruned[ip].resetAt - windowMs), 1000)]]
    ELSE [store  |-> MapSet(pruned, ip, [count   |-> pruned[ip].count + 1,
                                         resetAt |-> pruned[ip].resetAt]),
          result |-> [allowed |-> TRUE]]

\* the check restarting the window at every allowed call
checkBody_SlidingReset(st, ip, pruneNow, t, windowMs, maxAttempts) ==
    LET pruned == pruneExpired(st, pruneNow) IN
    IF ip \notin DOMAIN pruned \/ t >= pruned[ip].resetAt
    THEN [store  |-> MapSet(pruned, ip, [count |-> 1, resetAt |-> t + windowMs]),
          result |-> [allowed |-> TRUE]]
    ELSE IF pruned[ip].count >= maxAttempts
    THEN [store  |-> pruned,
          result |-> [allowed |-> FALSE,
                      retryAfterSeconds |-> Ceil(pruned[ip].resetAt - t, 1000)]]
    ELSE [store  |-> MapSet(pruned, ip, [count   |-> pruned[ip].count + 1,
                                         resetAt |-> t + windowMs]),
          result |-> [allowed |-> TRUE]]

\* the body shared by checkLoginRateLimit and checkRateLimit: pruneExpired()
\* reads the clock (pruneNow), then the check reads it again (t)
checkBody(st, ip, pruneNow, t, windowMs, maxAttempts) ==
    LET pruned == pruneExpired(st, pruneNow) IN
    IF ip \notin DOMAIN pruned \/ t >= pruned[ip].resetAt
    THEN [store  |-> MapSet(pruned, ip, [count |-> 1, resetAt |-> t + windowMs]),
          result |-> [allowed |-> TRUE]]
    ELSE IF pruned[ip].count >= maxAttempts
    THEN [store  |-> pruned,
          result |-> [allowed |-> FALSE,
                      retryAfterSeconds |-> Ceil(pruned[ip].resetAt - t, 1000)]]
    ELSE [store  |-> MapSet(pruned, ip, [count   |-> pruned[ip].count + 1,
                                         resetAt |-> pruned[ip].resetAt]),
          result |-> [allowed |-> TRUE]]

checkLoginRateLimit(st, ip, pruneNow, t) ==
    checkBody(st, ip, pruneNow, t, LOGIN_WINDOW_MS, LOGIN_MAX_ATTEMPTS)

checkRateLimit(st, ip, pruneNow, t) ==
    checkBody(st, ip, pruneNow, t, REGISTER_WINDOW_MS, REGISTER_MAX_ATTEMPTS)

StoreOf(l) == IF l = "login" THEN loginStore ELSE registerStore
StoreOfNext(l) == IF l = "login" THEN loginStore' ELSE registerStore'

\* ------------------------------------------------- bookkeeping of the calls
NoCall == [limiter |-> "none"]
NoWin == [start |-> -1, calls |-> 0, allowed |-> 0]
NoEntry == [count |-> 0, resetAt |-> 0]

EntryOf(st, ip) == IF ip \in DOMAIN st THEN st[ip] ELSE NoEntry

\* the window a call at time t for a key belongs to: the window opened by the
\* first call of the key, or by its first call after the previous window ended;
\* calls counts the calls of the window, allowed those that were allowed
NextWin(w, t, windowMs, allowed) ==
    IF w = NoWin \/ t >= w.start + windowMs
    THEN [start |-> t, calls |-> 1, allowed |-> IF allowed THEN 1 ELSE 0]
    ELSE [start |-> w.start, calls |-> w.calls + 1,
          allowed |-> IF allowed THEN w.allowed + 1 ELSE w.allowed]

\* one call of limiter l for key ip; gap is the clock advance between the two
\* Date.now() reads of the call
LimiterCall(l, ip, gap) ==
    LET t   == now + gap
        out == IF l = "login"
               THEN checkLoginRateLimit(loginStore, ip, now, t)
               ELSE checkRateLimit(registerStore, ip, now, t)
        w   == NextWin(win[l][ip], t, WindowMs(l), out.result.allowed)
        recent == SelectSeq(allowedLog[l][ip], LAMBDA s : s > t - WindowMs(l))
    IN  /\ nCalls < (IF underTest \in Limiters THEN MaxCalls ELSE MaxCallsShared)
        /\ gap > 0 => nTicks < MaxTicks
        /\ now' = t
        /\ nTicks' = IF gap > 0 THEN nTicks + 1 ELSE nTicks
        /\ nCalls' = nCalls + 1
        /\ loginStore' = IF l = "login" THEN out.store ELSE loginStore
        /\ registerStore' = IF l = "register" THEN out.store ELSE registerStore
        /\ lastCall' = [limiter |-> l, ip |-> ip, pruneNow |-> now, now |-> t,
                        before |-> EntryOf(StoreOf(l), ip),
                        wasBlocked |-> blockedLog[l][ip] # {},
                        result |-> out.result]
        /\ win' = [win EXCEPT ![l][ip] = w]
        /\ blockedLog' = [blockedLog EXCEPT ![l][ip] =
                (IF w.calls = 1 THEN {} ELSE @) \cup
                (IF out.result.allowed THEN {}
                 ELSE {[at |-> t, retryAfterSeconds |-> out.result.retryAfterSeconds]})]
        /\ allowedLog' = [allowedLog EXCEPT ![l][ip] =
                IF underTest \notin Limiters THEN @
                ELSE IF out.result.allowed THEN Append(recent, t) ELSE recent]
        /\ UNCHANGED underTest

\* ----------------------------------------------------------------- actions
LimStart ==
    /\ now = 0
    /\ loginStore = <<>>
    /\ registerStore = <<>>
    /\ lastCall = NoCall
    /\ win = [l \in Limiters |-> [k \in Keys |-> NoWin]]
    /\ blockedLog = [l \in Limiters |-> [k \in Keys |-> {}]]
    /\ allowedLog = [l \in Limiters |-> [k \in Keys |-> <<>>]]
    /\ nTicks = 0
    /\ nCalls = 0

\* the clock advances between two calls
Tick ==
    /\ nTicks < MaxTicks
    /\ \E d \in TickSteps : now' = now + d
    /\ nTicks' = nTicks + 1
    /\ UNCHANGED <<loginStore, registerStore, lastCall, win, blockedLog,
                   allowedLog, nCalls, underTest, authVars, nonAuthVars>>

\* a caller invokes checkLoginRateLimit(ip)
CheckLogin ==
    /\ underTest \in {"login", "both"}
    /\ \E ip \in Keys, gap \in ReadGaps : LimiterCall("login", ip, gap)
    /\ UNCHANGED <<authVars, nonAuthVars>>

\* a caller invokes checkRateLimit(ip)
CheckRegister ==
    /\ underTest \in {"register", "both"}
    /\ \E ip \in Keys, gap \in ReadGaps : LimiterCall("register", ip, gap)
    /\ UNCHANGED <<authVars, nonAuthVars>>

\* ------------------------------------------- the authentication entry points
\* forwarded ? (forwarded.split(",")[0] ?? "unknown").trim() : "unknown"
ClientIp(h) == IF h = <<>> THEN "unknown" ELSE Head(h)

\* a request at an await: did lists the operations it has started so far
Request(kind, pc, did, username) ==
    [kind |-> kind, pc |-> pc, did |-> did, username |-> username]

\* an answered request: status is the HTTP status of the register route or the
\* value authorize returned, retryAfter the Retry-After header, limited and
\* retryAfterSeconds what the limiter had returned for the request
Response(kind, did, status, retryAfter, limited, retryAfterSeconds) ==
    [kind |-> kind, did |-> did, status |-> status, retryAfter |-> retryAfter,
     limited |-> limited, retryAfterSeconds |-> retryAfterSeconds]

Pending(kind, pc) == {r \in BagToSet(inflight) : r.kind = kind /\ r.pc = pc}
Remove(r) == inflight (-) SetToBag({r})
Add(r) == inflight (+) SetToBag({r})
Move(r, q) == (inflight (-) SetToBag({r})) (+) SetToBag({q})

LimUnchanged ==
    UNCHANGED <<now, loginStore, registerStore, lastCall, win, blockedLog,
                allowedLog, nTicks, nCalls, underTest, nonAuthVars>>

\* POST /api/auth/register is invoked and runs to its first await: the client
\* key is taken from x-forwarded-for, checkRateLimit(ip) is called, a blocked
\* request is answered 429 with Retry-After, an allowed one awaits request.json()
RegisterPost ==
    \E h \in Headers, gap \in ReadGaps :
        /\ LimiterCall("register", ClientIp(h), gap)
        /\ IF lastCall'.result.allowed
           THEN /\ BagCardinality(inflight) < MaxInFlight
                /\ inflight' = Add(Request("register", "json",
                                           <<"checkRateLimit", "request.json">>, ""))
                /\ lastResponse' = lastResponse
           ELSE /\ inflight' = inflight
                /\ lastResponse' =
                     Response("register", <<"checkRateLimit">>, "429",
                              ToString(lastCall'.result.retryAfterSeconds),
                              "blocked", lastCall'.result.retryAfterSeconds)
        /\ UNCHANGED <<users, nonAuthVars>>

\* request.json() settles: a body that is not JSON is answered 400, one that
\* registerSchema rejects is answered 400, otherwise bcrypt.hash is awaited
RegisterParse ==
    \E r \in Pending("register", "json"), body \in Bodies :
        /\ IF ~body.json
           THEN /\ inflight' = Remove(r)
                /\ lastResponse' = Response("register", r.did, "400", "", "allowed", 0)
           ELSE IF ~body.wellFormed
           THEN /\ inflight' = Remove(r)
                /\ lastResponse' = Response("register", r.did \o <<"safeParse">>,
                                            "400", "", "allowed", 0)
           ELSE /\ inflight' = Move(r, Request("register", "hash",
                                               r.did \o <<"safeParse", "bcrypt.hash">>,
                                               body.username))
                /\ lastResponse' = lastResponse
        /\ UNCHANGED users
        /\ LimUnchanged

\* bcrypt.hash resolves and prisma.user.create is awaited
RegisterHash ==
    \E r \in Pending("register", "hash") :
        /\ inflight' = Move(r, Request("register", "create", r.did \o <<"user.create">>,
                                       r.username))
        /\ UNCHANGED <<lastResponse, users>>
        /\ LimUnchanged

\* prisma.user.create settles: a taken username (or email) is P2002 and
\* answered 409, any other failure is answered 500, success is answered 201
RegisterCreate ==
    \E r \in Pending("register", "create"), dbFails \in BOOLEAN :
        /\ inflight' = Remove(r)
        /\ IF r.username \in users
           THEN /\ users' = users
                /\ lastResponse' = Response("register", r.did, "409", "", "allowed", 0)
           ELSE IF dbFails
           THEN /\ users' = users
                /\ lastResponse' = Response("register", r.did, "500", "", "allowed", 0)
           ELSE /\ users' = users \cup {r.username}
                /\ lastResponse' = Response("register", r.did, "201", "", "allowed", 0)
        /\ LimUnchanged

\* authorize(credentials) is invoked and runs to its first await:
\* credentialsSchema.safeParse, null when it fails, else the import of
\* @/lib/prisma is awaited
Authorize ==
    \E c \in Credentials :
        /\ IF ~c.wellFormed
           THEN /\ inflight' = inflight
                /\ lastResponse' = Response("signin", <<"safeParse">>, "null", "", "none", 0)
           ELSE /\ BagCardinality(inflight) < MaxInFlight
                /\ inflight' = Add(Request("signin", "import", <<"safeParse">>,
                                           c.username))
                /\ lastResponse' = lastResponse
        /\ UNCHANGED users
        /\ LimUnchanged

\* the import resolves and prisma.user.findUnique({ where: { username } }) is awaited
AuthorizeFind ==
    \E r \in Pending("signin", "import") :
        /\ inflight' = Move(r, Request("signin", "find", r.did \o <<"user.findUnique">>,
                                       r.username))
        /\ UNCHANGED <<lastResponse, users>>
        /\ LimUnchanged

\* findUnique resolves: null when there is no such user, else
\* bcrypt.compare(password, user.passwordHash) is awaited
AuthorizeCompare ==
    \E r \in Pending("signin", "find") :
        /\ IF r.username \notin users
           THEN /\ inflight' = Remove(r)
                /\ lastResponse' = Response("signin", r.did, "null", "", "none", 0)
           ELSE /\ inflight' = Move(r, Request("signin", "compare",
                                               r.did \o <<"bcrypt.compare">>, r.username))
                /\ lastResponse' = lastResponse
        /\ UNCHANGED users
        /\ LimUnchanged

\* bcrypt.compare resolves (isValid): null when the password does not match the
\* stored hash, else the user
AuthorizeReturn ==
    \E r \in Pending("signin", "compare"), isValid \in BOOLEAN :
        /\ inflight' = Remove(r)
        /\ lastResponse' = Response("signin", r.did, IF isValid THEN "user" ELSE "null",
                                    "", "none", 0)
        /\ UNCHANGED users
        /\ LimUnchanged

NoResponse == Response("none", <<>>, "", "", "none", 0)

AuthStart ==
    /\ inflight = EmptyBag
    /\ lastResponse = NoResponse
    /\ users = {}

\* ---------------------------------------------------------- calculateSM2
NoResult == [repetition |-> -1]

\* Math.max
Max(a, b) == IF a > b THEN a ELSE b

\* Math.min
Min(a, b) == IF a < b THEN a ELSE b

\* The program computes in IEEE doubles. A value that is not halfway between two
\* results rounds as its decimal value does; a value whose decimal value is
\* exactly halfway is held as a double just below, at or just above the half
\* (2.505 + 0.1 is held below 2.605, 15 * 2.5 is exactly 37.5), so it rounds
\* down or up; up says which.
\* Math.round(n / 1000) for an integer n
RoundThousandths(n, up) ==
    IF n % 1000 = 500 /\ ~up THEN n \div 1000 ELSE (n + 500) \div 1000

\* Number(x.toFixed(2)) for x in thousandths
ToFixed2(x, up) ==
    IF x % 10 = 5 /\ ~up THEN (x \div 10) * 10 ELSE ((x + 5) \div 10) * 10

\* the directions in which the two roundings of one call go at a half
Ties == [interval : BOOLEAN, easinessFactor : BOOLEAN]

\* 0.1 - (5 - quality) * (0.08 + (5 - quality) * 0.02), in thousandths
EaseDelta(quality) == 100 - (5 - quality) * (80 + (5 - quality) * 20)

\* calculateSM2 taking quality 2 as a successful recall
calculateSM2_FailBelowTwo(in, ties) ==
    LET safePreviousEF == Max(1300, in.previousEF)
        repetition == IF in.quality < 2 THEN 0 ELSE in.previousRepetition + 1
        interval ==
            IF in.quality < 2 THEN 1
            ELSE IF repetition = 1 THEN 1
            ELSE IF repetition = 2 THEN 6
            ELSE Max(1, RoundThousandths(in.previousInterval * safePreviousEF,
                                         ties.interval))
        easinessFactor == Max(1300, safePreviousEF + EaseDelta(in.quality))
    IN  [interval |-> interval, repetition |-> repetition,
         easinessFactor |-> ToFixed2(easinessFactor, ties.easinessFactor),
         nextReview |-> interval]

\* calculateSM2 choosing the rung of the ladder by previousRepetition
calculateSM2_LadderOnPrevious(in, ties) ==
    LET safePreviousEF == Max(1300, in.previousEF)
        repetition == IF in.quality < 3 THEN 0 ELSE in.previousRepetition + 1
        interval ==
            IF in.quality < 3 THEN 1
            ELSE IF in.previousRepetition = 1 THEN 1
            ELSE IF in.previousRepetition = 2 THEN 6
            ELSE Max(1, RoundThousandths(in.previousInterval * safePreviousEF,
                                         ties.interval))
        easinessFactor == Max(1300, safePreviousEF + EaseDelta(in.quality))
    IN  [interval |-> interval, repetition |-> repetition,
         easinessFactor |-> ToFixed2(easinessFactor, ties.easinessFactor),
         nextReview |-> interval]

\* calculateSM2 multiplying the interval by previousEF as stored, not floored
calculateSM2_UnflooredEF(in, ties) ==
    LET safePreviousEF == Max(1300, in.previousEF)
        repetition == IF in.quality < 3 THEN 0 ELSE in.previousRepetition + 1
        interval ==
            IF in.quality < 3 THEN 1
            ELSE IF repetition = 1 THEN 1
            ELSE IF repetition = 2 THEN 6
            ELSE Max(1, RoundThousandths(in.previousInterval * in.previousEF,
                                         ties.interval))
        easinessFactor == Max(1300, safePreviousEF + EaseDelta(in.quality))
    IN  [interval |-> interval, repetition |-> repetition,
         easinessFactor |-> ToFixed2(easinessFactor, ties.easinessFactor),
         nextReview |-> interval]

\* calculateSM2 leaving the ease factor alone on a failed recall
calculateSM2_KeepEFOnFail(in, ties) ==
    LET safePreviousEF == Max(1300, in.previousEF)
        repetition == IF in.quality < 3 THEN 0 ELSE in.previousRepetition + 1
        interval ==
            IF in.quality < 3 THEN 1
            ELSE IF repetition = 1 THEN 1
            ELSE IF repetition = 2 THEN 6
            ELSE Max(1, RoundThousandths(in.previousInterval * safePreviousEF,
                                         ties.interval))
        easinessFactor ==
            IF in.quality < 3 THEN safePreviousEF
            ELSE Max(1300, safePreviousEF + EaseDelta(in.quality))
    IN  [interval |-> interval, repetition |-> repetition,
         easinessFactor |-> ToFixed2(easinessFactor, ties.easinessFactor),
         nextReview |-> interval]

\* calculateSM2 without the minimum of 1 on the grown interval
calculateSM2_NoIntervalFloor(in, ties) ==
    LET safePreviousEF == Max(1300, in.previousEF)
        repetition == IF in.quality < 3 THEN 0 ELSE in.previousRepetition + 1
        interval ==
            IF in.quality < 3 THEN 1
            ELSE IF repetition = 1 THEN 1
            ELSE IF repetition = 2 THEN 6
            ELSE RoundThousandths(in.previousInterval * safePreviousEF, ties.interval)
        easinessFactor == Max(1300, safePreviousEF + EaseDelta(in.quality))
    IN  [interval |-> interval, repetition |-> repetition,
         easinessFactor |-> ToFixed2(easinessFactor, ties.easinessFactor),
         nextReview |-> interval]

\* calculateSM2 returning the floored previous ease factor, never a new one
calculateSM2_ReturnPreviousEF(in, ties) ==
    LET safePreviousEF == Max(1300, in.previousEF)
        repetition == IF in.quality < 3 THEN 0 ELSE in.previousRepetition + 1
        interval ==
            IF in.quality < 3 THEN 1
            ELSE IF repetition = 1 THEN 1
            ELSE IF repetition = 2 THEN 6
            ELSE Max(1, RoundThousandths(in.previousInterval * safePreviousEF,
                                         ties.interval))
    IN  [interval |-> interval, repetition |-> repetition,
         easinessFactor |-> ToFixed2(safePreviousEF, ties.easinessFactor),
         nextReview |-> interval]

\* calculateSM2({quality, previousInterval, previousRepetition, previousEF});
\* nextReview is given as the number of days from today
calculateSM2(in, ties) ==
    LET safePreviousEF == Max(1300, in.previousEF)
        repetition == IF in.quality < 3 THEN 0 ELSE in.previousRepetition + 1
        interval ==
            IF in.quality < 3 THEN 1
            ELSE IF repetition = 1 THEN 1
            ELSE IF repetition = 2 THEN 6
            ELSE Max(1, RoundThousandths(in.previousInterval * safePreviousEF,
                                         ties.interval))
        easinessFactor == Max(1300, safePreviousEF + EaseDelta(in.quality))
    IN  [interval |-> interval, repetition |-> repetition,
         easinessFactor |-> ToFixed2(easinessFactor, ties.easinessFactor),
         nextReview |-> interval]

SM2Inputs ==
    [quality : Qualities, previousInterval : PreviousIntervals,
     previousRepetition : PreviousRepetitions, previousEF : PreviousEFs]

\* no calculateSM2 call in behaviours that exercise other code
SM2Idle ==
    /\ sm2Input = [quality |-> 0, previousInterval |-> 1, previousRepetition |-> 0,
                   previousEF |-> 2500]
    /\ sm2Result = NoResult
    /\ chained = 0
    /\ chainLog = <<>>

SM2Start ==
    /\ sm2Input \in SM2Inputs
    /\ sm2Result = NoResult
    /\ chained = 0
    /\ chainLog = <<>>

\* calculateSM2 is called with sm2Input
Calculate ==
    /\ sm2Result = NoResult
    /\ \E ties \in Ties :
          LET result == calculateSM2(sm2Input, ties) IN
          /\ sm2Result' = result
          /\ chainLog' = Append(chainLog, [in |-> sm2Input, out |-> result])
    /\ UNCHANGED <<sm2Input, chained, nonSm2Vars>>

\* the next answer to the same question: a call whose previousInterval,
\* previousRepetition and previousEF are those the previous call returned
Chain ==
    /\ sm2Result # NoResult
    /\ chained < MaxChain
    /\ \E q \in Qualities :
          sm2Input' = [quality |-> q, previousInterval |-> sm2Result.interval,
                       previousRepetition |-> sm2Result.repetition,
                       previousEF |-> sm2Result.easinessFactor]
    /\ sm2Result' = NoResult
    /\ chained' = chained + 1
    /\ UNCHANGED <<chainLog, nonSm2Vars>>

SM2Next == Calculate \/ Chain

\* ------------------------------------------------ POST /api/quiz/session
\* sessionSchema.safeParse(body).success
sessionSchema(body) ==
    /\ Len(body.results) >= 1
    /\ Len(body.results) <= 20
    /\ \A i \in 1..Len(body.results) :
          /\ body.results[i].questionId # ""
          /\ body.results[i].quality \in 0..5

\* the sequences over S of length 1..n
RECURSIVE SeqsUpTo(_, _)
SeqsUpTo(S, n) ==
    IF n <= 0 THEN {}
    ELSE LET shorter == SeqsUpTo(S, n - 1) IN
         {<<x>> : x \in S} \cup shorter \cup
         {Append(q, x) : q \in {r \in shorter : Len(r) = n - 1}, x \in S}

\* request bodies: json is whether request.json() resolves; results holds at
\* most n graded answers (none at all is a body sessionSchema rejects)
SessionBodies(n) ==
    [json : BOOLEAN, results : {<<>>} \cup SeqsUpTo(ResultItems, n)]

NoWrite == [userId |-> ""]
\* a response: results is the submission it answers and persisted the upserts
\* that succeeded for it, each with the position of its answer in results
NoSessionResponse ==
    [status |-> "", error |-> "", saved |-> 0, scheduled |-> <<>>,
     results |-> <<>>, persisted |-> <<>>]
SessionError(status, error) ==
    [status |-> status, error |-> error, saved |-> 0, scheduled |-> <<>>,
     results |-> <<>>, persisted |-> <<>>]

PostsAt(pc) == {p \in BagToSet(posts) : p.pc = pc}

\* POST, up to the await of userProgress.findMany: the session, the body and
\* its validation
SessionPost ==
    \E session \in Sessions, body \in SessionBodies(MaxAnswers - nAnswers) :
        /\ nAnswers < MaxAnswers
        /\ BagCardinality(posts) < MaxInFlight
        /\ IF session.user.id = ""
           THEN /\ sessionResponse' = SessionError("401", "Unauthorized.")
                /\ UNCHANGED <<posts, nAnswers, accepted>>
           ELSE IF ~body.json
           THEN /\ sessionResponse' = SessionError("400", "Invalid request body.")
                /\ UNCHANGED <<posts, nAnswers, accepted>>
           ELSE IF ~sessionSchema(body)
           THEN /\ sessionResponse' = SessionError("400", "Invalid session data.")
                /\ UNCHANGED <<posts, nAnswers, accepted>>
           ELSE /\ posts' = posts (+) SetToBag({[
                        userId |-> session.user.id, results |-> body.results,
                        pc |-> "findMany", existingMap |-> <<>>, at |-> 1,
                        saved |-> 0, scheduled |-> <<>>, persisted |-> <<>>]})
                /\ nAnswers' = nAnswers + Len(body.results)
                /\ accepted' = accepted + 1
                /\ UNCHANGED sessionResponse
        /\ UNCHANGED <<userProgress, lastActivity, today, lastWrite, userUpdates,
                       questionsVars, nonQuizVars>>

\* userProgress.findMany resolves: existingMap holds the user's rows of the
\* submitted questions, by questionId
SessionFindMany ==
    \E p \in PostsAt("findMany") :
        LET questionIds == {p.results[i].questionId : i \in 1..Len(p.results)}
            existing == {q \in questionIds : <<p.userId, q>> \in DOMAIN userProgress}
        IN  /\ posts' = (posts (-) SetToBag({p})) (+) SetToBag({[p EXCEPT
                    !.existingMap = [q \in existing |-> userProgress[<<p.userId, q>>]],
                    !.pc = "upsert"]})
            /\ UNCHANGED <<userProgress, lastActivity, today, sessionResponse,
                           lastWrite, nAnswers, accepted, userUpdates,
                           questionsVars, nonQuizVars>>

\* scheduled and saved counting the answer whether or not its upsert succeeded
Tally_CountFailed(p, item, sm2, row, written) ==
    [p EXCEPT !.scheduled = Append(@, [questionId |-> item.questionId,
                                       nextReview |-> row.nextReview,
                                       interval |-> sm2.interval]),
              !.saved = @ + 1]

\* scheduled.push and saved++ after the upsert, inside the try block: a throw
\* of the upsert skips both
Tally(p, item, sm2, row, written) ==
    IF written
    THEN [p EXCEPT !.scheduled = Append(@, [questionId |-> item.questionId,
                                            nextReview |-> row.nextReview,
                                            interval |-> sm2.interval]),
                   !.saved = @ + 1]
    ELSE p

\* one turn of the loop: calculateSM2 on the row existingMap holds (or on the
\* defaults), then userProgress.upsert, which writes the row or throws; a throw
\* is caught and the item skipped
SessionUpsert ==
    \E p \in PostsAt("upsert"), ties \in Ties, written \in BOOLEAN :
        LET item == p.results[p.at]
            hasPrev == item.questionId \in DOMAIN p.existingMap
            prev == p.existingMap[item.questionId]
            sm2 == calculateSM2(
                [quality |-> item.quality,
                 previousInterval |-> IF hasPrev THEN prev.interval ELSE 1,
                 previousRepetition |-> IF hasPrev THEN prev.repetition ELSE 0,
                 previousEF |-> IF hasPrev THEN prev.easinessFactor ELSE 2500],
                ties)
            row == [repetition |-> sm2.repetition, interval |-> sm2.interval,
                    easinessFactor |-> sm2.easinessFactor,
                    nextReview |-> today + sm2.nextReview]
            pc == IF p.at = Len(p.results) THEN "update" ELSE "upsert"
            tallied == Tally(p, item, sm2, row, written)
        IN  /\ IF written
               THEN /\ userProgress' =
                          MapSet(userProgress, <<p.userId, item.questionId>>, row)
                    /\ lastWrite' = [userId |-> p.userId,
                                     questionId |-> item.questionId, row |-> row]
                    /\ posts' = (posts (-) SetToBag({p})) (+) SetToBag({[tallied EXCEPT
                          !.persisted = Append(@, [at |-> p.at, row |-> row]),
                          !.at = @ + 1, !.pc = pc]})
               ELSE /\ posts' = (posts (-) SetToBag({p})) (+) SetToBag({[tallied EXCEPT
                          !.at = @ + 1, !.pc = pc]})
                    /\ UNCHANGED <<userProgress, lastWrite>>
            /\ UNCHANGED <<lastActivity, today, sessionResponse, nAnswers, accepted,
                           userUpdates, questionsVars, nonQuizVars>>

\* after the loop: user.update sets lastActivity, then the response
SessionUpdate ==
    \E p \in PostsAt("update") :
        /\ lastActivity' = [lastActivity EXCEPT ![p.userId] = today]
        /\ userUpdates' = userUpdates + 1
        /\ sessionResponse' = [status |-> "200", error |-> "", saved |-> p.saved,
                               scheduled |-> p.scheduled, results |-> p.results,
                               persisted |-> p.persisted]
        /\ posts' = posts (-) SetToBag({p})
        /\ UNCHANGED <<userProgress, today, lastWrite, nAnswers, accepted,
                       questionsVars, nonQuizVars>>

\* ------------------------------------------- lib/questions-data.ts
GameQuestion(id, category, type) == [id |-> id, category |-> category, type |-> type]

\* the question sets by topic (the sets themselves are data files)
questionsData ==
    [Database |-> << GameQuestion("d1", "Database", "QUIZ_SIMPLE"),
                     GameQuestion("d2", "Database", "TRUE_FALSE"),
                     GameQuestion("d3", "Database", "QUIZ_SIMPLE") >>,
     JavaScript |-> << GameQuestion("j1", "JavaScript", "FILL_THE_BLANK") >>]

\* a JavaScript value as the route uses it: whether it is an array (has filter
\* and map), its length property, and its items when it is an array
JsArray(items) == [isArray |-> TRUE, length |-> Len(items), items |-> items]
\* what questionsData[key] finds on Object.prototype for a key questionsData
\* does not own: the function Object (length 1), the function toString (length 0)
ObjectPrototype ==
    [constructor |-> [isArray |-> FALSE, length |-> 1, items |-> <<>>],
     toString |-> [isArray |-> FALSE, length |-> 0, items |-> <<>>]]

\* questionsData[topic] || []
getQuestionsByTopic(topic) ==
    IF topic \in DOMAIN questionsData THEN JsArray(questionsData[topic])
    ELSE IF topic \in DOMAIN ObjectPrototype THEN ObjectPrototype[topic]
    ELSE JsArray(<<>>)

\* Object.values(questionsData).flat()
getAllQuestions == JsArray(questionsData.Database \o questionsData.JavaScript)

QuestionIds ==
    {getAllQuestions.items[i].id : i \in 1..Len(getAllQuestions.items)}

\* ------------------------------------ GET /api/quiz/questions/[topic]
VALID_TYPES == {"QUIZ_SIMPLE", "TRUE_FALSE", "FILL_THE_BLANK"}
\* typeFilter when no filter applies
null == "null"

IsDigit(c) == c \in {"0", "1", "2", "3", "4", "5", "6", "7", "8", "9"}
DigitValue(c) ==
    CASE c = "0" -> 0 [] c = "1" -> 1 [] c = "2" -> 2 [] c = "3" -> 3 [] c = "4" -> 4
      [] c = "5" -> 5 [] c = "6" -> 6 [] c = "7" -> 7 [] c = "8" -> 8 [] c = "9" -> 9

\* the value of the digits that start s, after acc
RECURSIVE LeadingDigits(_, _)
LeadingDigits(s, acc) ==
    IF s = <<>> \/ ~IsDigit(Head(s)) THEN acc
    ELSE LeadingDigits(Tail(s), 10 * acc + DigitValue(Head(s)))

RECURSIVE TrimStart(_)
TrimStart(s) == IF s # <<>> /\ Head(s) = " " THEN TrimStart(Tail(s)) ELSE s

NaN == [nan |-> TRUE, value |-> 0]
\* Number.parseInt(s, 10): blanks, a sign, then the digits up to the first
\* character that is none; NaN without a digit
ParseInt(s) ==
    LET t == TrimStart(s)
        signed == t # <<>> /\ Head(t) \in {"-", "+"}
        digits == IF signed THEN Tail(t) ELSE t
    IN  IF digits = <<>> \/ ~IsDigit(Head(digits)) THEN NaN
        ELSE [nan |-> FALSE,
              value |-> IF signed /\ Head(t) = "-" THEN -LeadingDigits(digits, 0)
                        ELSE LeadingDigits(digits, 0)]

\* count of the request
Count(param) ==
    LET countParam == ParseInt(IF param.present THEN param.value ELSE <<"1", "0">>)
    IN  IF countParam.nan THEN 10 ELSE Min(30, Max(1, countParam.value))

\* typeFilter of the request
TypeFilter(param) ==
    LET typeParam == IF param.present THEN param.value ELSE "mixed"
    IN  IF typeParam \in VALID_TYPES THEN typeParam ELSE null

\* topicsParam is a non-empty string
Truthy(param) == param.present /\ param.value # <<Entry(FALSE, "")>>
\* topicsParam.split(",").map((t) => t.trim()).filter(Boolean)
SelectedKeys(param) ==
    LET trimmed == [i \in 1..Len(param.value) |-> param.value[i].key]
    IN  SelectSeq(trimmed, LAMBDA key : key # "")

\* arr turned by k places, for every k
Rotations(arr) ==
    {[i \in 1..Len(arr) |-> arr[((i + k - 1) % Len(arr)) + 1]] : k \in 0..(Len(arr) - 1)}

\* every order shuffle(arr) can return (the store has the same function); of
\* an array longer than MaxShuffle, the rotations among them
Shuffle(arr) ==
    IF arr = <<>> THEN {<<>>}
    ELSE IF Len(arr) <= MaxShuffle
    THEN {[i \in 1..Len(arr) |-> arr[a[i]]] : a \in Permutations(1..Len(arr))}
    ELSE Rotations(arr)

\* ordered.slice(0, count) keeping one item more than count
Slice_OneMore(ordered, count) == SubSeq(ordered, 1, Min(count + 1, Len(ordered)))

\* ordered.slice(0, count)
Slice(ordered, count) == SubSeq(ordered, 1, Min(count, Len(ordered)))

\* the query string of a request
NoQuery == [count |-> Absent, type |-> [present |-> FALSE, value |-> ""],
            topics |-> Absent]
NoRequest ==
    [pc |-> "idle", userId |-> "", topic |-> "", query |-> NoQuery, count |-> 0,
     typeFilter |-> null, pool |-> <<>>, did |-> <<>>]
NoQuizResponse ==
    [status |-> "", error |-> "", questions |-> <<>>, topic |-> "", userId |-> "",
     query |-> NoQuery, count |-> 0, typeFilter |-> null, pool |-> <<>>,
     due |-> <<>>, fresh |-> <<>>, scheduled |-> <<>>, did |-> <<>>]

\* the response to req: an error, or the questions; pool and the three buckets
\* are kept with it
QuizRespond(req, status, error, questions, pool, due, fresh, scheduled) ==
    /\ quizResponse' =
          [status |-> status, error |-> error, questions |-> questions,
           topic |-> req.topic, userId |-> req.userId, query |-> req.query,
           count |-> req.count, typeFilter |-> req.typeFilter,
           pool |-> pool, due |-> due, fresh |-> fresh, scheduled |-> scheduled,
           did |-> req.did]
    /\ quizRequest' = NoRequest

\* the rest of GET once allQuestions is final: the type filter and the empty
\* pool; filter and map throw a TypeError on a value that is no array, which
\* the framework answers 500
ToPool_SkipTypeFilter(req, allQuestions) ==
    IF ~allQuestions.isArray
    THEN QuizRespond(req, "500", "", <<>>, <<>>, <<>>, <<>>, <<>>)
    ELSE LET pool == allQuestions.items
         IN  IF Len(pool) = 0
             THEN QuizRespond(req, "200", "", <<>>, <<>>, <<>>, <<>>, <<>>)
             ELSE /\ quizRequest' = [req EXCEPT !.pc = "progress", !.pool = pool]
                  /\ quizResponse' = NoQuizResponse

ToPool(req, allQuestions) ==
    IF ~allQuestions.isArray
    THEN QuizRespond(req, "500", "", <<>>, <<>>, <<>>, <<>>, <<>>)
    ELSE LET pool == IF req.typeFilter # null
                     THEN SelectSeq(allQuestions.items,
                                    LAMBDA q : q.type = req.typeFilter)
                     ELSE allQuestions.items
         IN  IF Len(pool) = 0
             THEN QuizRespond(req, "200", "", <<>>, <<>>, <<>>, <<>>, <<>>)
             ELSE /\ quizRequest' = [req EXCEPT !.pc = "progress", !.pool = pool]
                  /\ quizResponse' = NoQuizResponse

\* GET, up to its first database query: the session, the query parameters, the
\* question set of the topic. The route writes nothing, so a request sees the
\* tables as they are when it is made: one request per behaviour, made on any
\* state of the tables, covers every request.
Get ==
    /\ quizRequest.pc = "idle"
    /\ quizResponse = NoQuizResponse
    /\ \E session \in Sessions, topic \in Topics, countP \in CountParams,
          typeP \in TypeParams, topicsP \in TopicsParams :
          LET req == [pc |-> "start", userId |-> session.user.id, topic |-> topic,
                      query |-> [count |-> countP, type |-> typeP, topics |-> topicsP],
                      count |-> Count(countP), typeFilter |-> TypeFilter(typeP),
                      pool |-> <<>>, did |-> <<"getServerSession">>]
              allQuestions == IF topic = "Remix" THEN getAllQuestions
                              ELSE getQuestionsByTopic(topic)
          IN  IF session.user.id = ""
              THEN QuizRespond(req, "401", "Unauthorized.", <<>>, <<>>, <<>>, <<>>, <<>>)
              ELSE IF topic # "Remix" /\ allQuestions.length = 0
              THEN QuizRespond(req, "400", "Unknown topic.", <<>>, <<>>, <<>>, <<>>, <<>>)
              ELSE IF topic = "Remix"
              THEN /\ quizRequest' = [req EXCEPT !.pc = "studied"]
                   /\ quizResponse' = NoQuizResponse
              ELSE ToPool(req, allQuestions)
    /\ UNCHANGED <<userProgress, lastActivity, today, sessionVars, nonQuizVars>>

\* the questionIds of every row, whoever the row belongs to
StudiedSet_AnyUser(rows, userId) == {k[2] : k \in DOMAIN rows}

\* userProgress.findMany({where: {userId}}) as a set of questionIds
StudiedSet(rows, userId) == {k[2] : k \in {r \in DOMAIN rows : r[1] = userId}}

\* Remix: userProgress.findMany resolves with the rows of the user; the
\* questions are narrowed to the studied ones, then to those of the topics
GetStudied ==
    /\ quizRequest.pc = "studied"
    /\ LET req == [quizRequest EXCEPT !.did = Append(@, "findMany(studied)")]
           studiedSet == StudiedSet(userProgress, req.userId)
           studied == SelectSeq(getAllQuestions.items, LAMBDA q : q.id \in studiedSet)
           selectedKeys == SelectedKeys(req.query.topics)
           sets == [i \in 1..Len(selectedKeys) |-> getQuestionsByTopic(selectedKeys[i])]
           allowedIds == UNION {{sets[i].items[j].id : j \in 1..Len(sets[i].items)} :
                                i \in 1..Len(sets)}
       IN  IF ~Truthy(req.query.topics)
           THEN ToPool(req, JsArray(studied))
           ELSE IF \E i \in 1..Len(sets) : ~sets[i].isArray
           THEN QuizRespond(req, "500", "", <<>>, <<>>, <<>>, <<>>, <<>>)
           ELSE ToPool(req, JsArray(SelectSeq(studied, LAMBDA q : q.id \in allowedIds)))
    /\ UNCHANGED <<userProgress, lastActivity, today, sessionVars, nonQuizVars>>

\* the buckets of pool with nextReview = now left out of due and scheduled
Buckets_DueBeforeNow(pool, userId, rows, now_) ==
    LET has(q) == <<userId, q.id>> \in DOMAIN rows
        nextReview(q) == rows[<<userId, q.id>>].nextReview
    IN  [due |-> SelectSeq(pool, LAMBDA q : has(q) /\ nextReview(q) < now_),
         fresh |-> SelectSeq(pool, LAMBDA q : ~has(q)),
         scheduled |-> SelectSeq(pool, LAMBDA q : has(q) /\ nextReview(q) > now_)]

\* the buckets of pool: the loop over pool with progressMap
Buckets(pool, userId, rows, now_) ==
    LET has(q) == <<userId, q.id>> \in DOMAIN rows
        nextReview(q) == rows[<<userId, q.id>>].nextReview
    IN  [due |-> SelectSeq(pool, LAMBDA q : has(q) /\ nextReview(q) <= now_),
         fresh |-> SelectSeq(pool, LAMBDA q : ~has(q)),
         scheduled |-> SelectSeq(pool, LAMBDA q : has(q) /\ nextReview(q) > now_)]

\* the list with scheduled questions ahead of new ones
Ordered_ScheduledFirst(b) ==
    {d \o s \o f : d \in Shuffle(b.due), f \in Shuffle(b.fresh),
                   s \in Shuffle(b.scheduled)}

\* [...shuffle(due), ...shuffle(fresh), ...shuffle(scheduled)]
Ordered(b) ==
    {d \o f \o s : d \in Shuffle(b.due), f \in Shuffle(b.fresh),
                   s \in Shuffle(b.scheduled)}

\* userProgress.findMany resolves with the user's rows of the pool: the
\* buckets, the shuffles, the slice and the response
GetProgress ==
    /\ quizRequest.pc = "progress"
    /\ LET req == [quizRequest EXCEPT !.did = Append(@, "findMany(progress)")]
           b == Buckets(req.pool, req.userId, userProgress, today)
       IN  \E ordered \in Ordered(b) :
              QuizRespond(req, "200", "", Slice(ordered, req.count), req.pool,
                          b.due, b.fresh, b.scheduled)
    /\ UNCHANGED <<userProgress, lastActivity, today, sessionVars, nonQuizVars>>

QuestionsIdle ==
    /\ quizRequest = NoRequest
    /\ quizResponse = NoQuizResponse

SessionIdle ==
    /\ posts = EmptyBag
    /\ sessionResponse = NoSessionResponse
    /\ lastWrite = NoWrite
    /\ nAnswers = 0
    /\ accepted = 0
    /\ userUpdates = 0

\* a row of the table whose nextReview falls on day
DueOn(day) ==
    [repetition |-> 1, interval |-> 1, easinessFactor |-> 2500, nextReview |-> day]

\* the table before a request: for each question the requesting user has no
\* row or a row due on one of the days; another user may have studied d1
QuestionsStart ==
    /\ \E held \in SUBSET QuestionIds, other \in SUBSET {<<"u2", "d1">>} :
          \E own \in [{<<"u1", q>> : q \in held} -> {DueOn(day) : day \in ReviewDays}] :
             userProgress = [k \in DOMAIN own \cup other |->
                                IF k \in other THEN DueOn(1) ELSE own[k]]
    /\ lastActivity = [u \in UserIds |-> 0]
    /\ today \in ReviewDays
    /\ SessionIdle
    /\ QuestionsIdle

QuestionsNext == Get \/ GetStudied \/ GetProgress

\* the quiz routes not called
QuizIdle ==
    /\ userProgress = <<>>
    /\ lastActivity = [u \in UserIds |-> 0]
    /\ today = 1
    /\ SessionIdle
    /\ QuestionsIdle

\* the tables before the first submission: for each graded question the user
\* has no row or one of the stored rows
SessionStart ==
    /\ \E held \in SUBSET SessionQuestionIds :
          userProgress \in [{<<"u1", q>> : q \in held} -> StoredProgress]
    /\ lastActivity = [u \in UserIds |-> 0]
    /\ today = 1
    /\ SessionIdle
    /\ QuestionsIdle

SessionNext == SessionPost \/ SessionFindMany \/ SessionUpsert \/ SessionUpdate

\* --------------------------------------------- the game store (zustand)
\* byCategory after the first loop of interleaveQuestions: the questions of
\* each category in their order, the categories in order of first appearance
RECURSIVE ByCategory(_, _)
ByCategory(questions, pools) ==
    IF questions = <<>> THEN pools
    ELSE LET question == Head(questions)
             at == {i \in 1..Len(pools) : pools[i][1].category = question.category}
         IN  ByCategory(Tail(questions),
                 IF at = {} THEN Append(pools, <<question>>)
                 ELSE [pools EXCEPT ![CHOOSE i \in at : TRUE] = Append(@, question)])

\* categoryPools: every pool shuffled
RECURSIVE ShuffleEach(_)
ShuffleEach(pools) ==
    IF pools = <<>> THEN {<<>>}
    ELSE {<<pool>> \o rest : pool \in Shuffle(Head(pools)),
                             rest \in ShuffleEach(Tail(pools))}

\* a pass that empties a pool before it moves to the next
RECURSIVE Round_DrainPool(_, _, _, _, _)
Round_DrainPool(pools, interleaved, maxQuestions, i, addedThisRound) ==
    IF i > Len(pools)
    THEN [pools |-> pools, interleaved |-> interleaved,
          addedThisRound |-> addedThisRound]
    ELSE IF pools[i] = <<>>
    THEN Round_DrainPool(pools, interleaved, maxQuestions, i + 1, addedThisRound)
    ELSE LET item == pools[i][Len(pools[i])]
             popped == [pools EXCEPT ![i] = SubSeq(@, 1, Len(@) - 1)]
             pushed == Append(interleaved, item)
         IN  IF Len(pushed) >= maxQuestions
             THEN [pools |-> popped, interleaved |-> pushed, addedThisRound |-> TRUE]
             ELSE Round_DrainPool(popped, pushed, maxQuestions, i, TRUE)

\* one pass of the for loop over categoryPools, from pool i on: pop an item
\* off each pool that has one, stop when interleaved has maxQuestions items
RECURSIVE Round(_, _, _, _, _)
Round(pools, interleaved, maxQuestions, i, addedThisRound) ==
    IF i > Len(pools)
    THEN [pools |-> pools, interleaved |-> interleaved,
          addedThisRound |-> addedThisRound]
    ELSE IF pools[i] = <<>>
    THEN Round(pools, interleaved, maxQuestions, i + 1, addedThisRound)
    ELSE LET item == pools[i][Len(pools[i])]
             popped == [pools EXCEPT ![i] = SubSeq(@, 1, Len(@) - 1)]
             pushed == Append(interleaved, item)
         IN  IF Len(pushed) >= maxQuestions
             THEN [pools |-> popped, interleaved |-> pushed, addedThisRound |-> TRUE]
             ELSE Round(popped, pushed, maxQuestions, i + 1, TRUE)

\* the while loop without its exit on a pass that added nothing
RECURSIVE Rounds_NoExhaustedBreak(_, _, _, _)
Rounds_NoExhaustedBreak(pools, interleaved, maxQuestions, passes) ==
    IF ~(Len(interleaved) < maxQuestions)
    THEN [terminated |-> TRUE, interleaved |-> interleaved]
    ELSE IF passes = 0
    THEN [terminated |-> FALSE, interleaved |-> interleaved]
    ELSE LET r == Round(pools, interleaved, maxQuestions, 1, FALSE)
         IN  Rounds_NoExhaustedBreak(r.pools, r.interleaved, maxQuestions, passes - 1)

\* the while loop, followed for at most the given number of passes:
\* terminated tells whether the loop was left by then
RECURSIVE Rounds(_, _, _, _)
Rounds(pools, interleaved, maxQuestions, passes) ==
    IF ~(Len(interleaved) < maxQuestions)
    THEN [terminated |-> TRUE, interleaved |-> interleaved]
    ELSE IF passes = 0
    THEN [terminated |-> FALSE, interleaved |-> interleaved]
    ELSE LET r == Round(pools, interleaved, maxQuestions, 1, FALSE)
         IN  IF ~r.addedThisRound
             THEN [terminated |-> TRUE, interleaved |-> r.interleaved]
             ELSE Rounds(r.pools, r.interleaved, maxQuestions, passes - 1)

\* the optional argument maxQuestions
undefined == [given |-> FALSE, value |-> 0]
Given(value) == [given |-> TRUE, value |-> value]

\* interleaveQuestions(questions, maxQuestions) up to its return statement:
\* every outcome of the loop, one for each way the pools can be shuffled. A
\* pass that adds nothing ends the loop and any other pass adds an item, so
\* one pass more than there are questions is as far as the loop is followed.
InterleaveRuns(questions, arg) ==
    LET maxQuestions == IF arg.given THEN arg.value ELSE 10
    IN  {Rounds(categoryPools, <<>>, maxQuestions, Len(questions) + 1) :
            categoryPools \in ShuffleEach(ByCategory(questions, <<>>))}

\* what interleaveQuestions can return: shuffle(interleaved)
interleaveQuestions(questions, arg) ==
    UNION {Shuffle(run.interleaved) :
              run \in {r \in InterleaveRuns(questions, arg) : r.terminated}}

\* the lists of distinct items of S
Lists(S) ==
    UNION {{f \in [1..n -> S] : \A i, j \in 1..n : f[i] = f[j] => i = j} :
              n \in 0..Cardinality(S)}

MixQuestions == {getAllQuestions.items[i] : i \in 1..Len(getAllQuestions.items)}
NoMix == [called |-> FALSE]

\* a direct call of interleaveQuestions with the arguments drawn at the start
Interleave ==
    /\ ~mixCall.called
    /\ \E run \in InterleaveRuns(mixCall.questions, mixCall.maxQuestions) :
          \E result \in IF run.terminated THEN Shuffle(run.interleaved) ELSE {<<>>} :
             mixCall' = [mixCall EXCEPT !.called = TRUE,
                                        !.terminated = run.terminated,
                                        !.interleaved = run.interleaved,
                                        !.result = result]
    /\ UNCHANGED <<storeVars, pageVars, nonGameVars>>

initialState ==
    [sessionQuestions |-> <<>>, currentQuestionIndex |-> 0, score |-> 0,
     isFinished |-> FALSE, answeredResults |-> <<>>]

\* set(state) for a state that names the five fields
SetAll(state) ==
    /\ sessionQuestions' = state.sessionQuestions
    /\ currentQuestionIndex' = state.currentQuestionIndex
    /\ score' = state.score
    /\ isFinished' = state.isFinished
    /\ answeredResults' = state.answeredResults

NoSet == [method |-> "create"]

\* startSession keeping every question it is given
startSession_Uncapped(questions) ==
    \E mixedQuestions \in interleaveQuestions(questions, Given(Len(questions))) :
        /\ SetAll([sessionQuestions |-> mixedQuestions, currentQuestionIndex |-> 0,
                   score |-> 0, isFinished |-> Len(mixedQuestions) = 0,
                   answeredResults |-> <<>>])
        /\ lastSet' = [method |-> "startSession", questions |-> questions]

startSession(questions) ==
    \E mixedQuestions \in
          interleaveQuestions(questions, Given(Min(10, Len(questions)))) :
        /\ SetAll([sessionQuestions |-> mixedQuestions, currentQuestionIndex |-> 0,
                   score |-> 0, isFinished |-> Len(mixedQuestions) = 0,
                   answeredResults |-> <<>>])
        /\ lastSet' = [method |-> "startSession", questions |-> questions]

answerQuestion(questionId, isCorrect, quality) ==
    /\ score' = IF isCorrect THEN score + 1 ELSE score
    /\ answeredResults' =
          Append(answeredResults, [questionId |-> questionId, quality |-> quality])
    /\ lastSet' = [method |-> "answerQuestion"]
    /\ UNCHANGED <<sessionQuestions, currentQuestionIndex, isFinished>>

\* nextQuestion moving on whether or not a question is left
nextQuestion_PastTheEnd ==
    LET nextIndex == currentQuestionIndex + 1
        finished == nextIndex >= Len(sessionQuestions)
    IN  /\ currentQuestionIndex' = nextIndex
        /\ isFinished' = finished
        /\ lastSet' = [method |-> "nextQuestion"]
        /\ UNCHANGED <<sessionQuestions, score, answeredResults>>

nextQuestion ==
    LET nextIndex == currentQuestionIndex + 1
        finished == nextIndex >= Len(sessionQuestions)
    IN  /\ currentQuestionIndex' = IF finished THEN currentQuestionIndex ELSE nextIndex
        /\ isFinished' = finished
        /\ lastSet' = [method |-> "nextQuestion"]
        /\ UNCHANGED <<sessionQuestions, score, answeredResults>>

resetSession ==
    /\ SetAll(initialState)
    /\ lastSet' = [method |-> "resetSession"]

\* a question set longer than a session, of one category
LargeSet ==
    [i \in 1..11 |->
        GameQuestion(<<"s01", "s02", "s03", "s04", "s05", "s06", "s07", "s08",
                       "s09", "s10", "s11">>[i], "System Design", "QUIZ_SIMPLE")]

\* the lists startSession is called with when the store is used on its own
StoreLists == Lists({q \in MixQuestions : q.id \in {"d1", "d2", "j1"}})

\* the store's methods called in any order with any arguments
StoreStart ==
    /\ \E questions \in StoreLists : startSession(questions)
    /\ UNCHANGED <<mixCall, pageVars, nonGameVars>>

StoreAnswer ==
    /\ Len(answeredResults) < MaxAnswered
    /\ \E questionId \in {"d1", "j1"}, isCorrect \in BOOLEAN, quality \in {2, 5} :
          answerQuestion(questionId, isCorrect, quality)
    /\ UNCHANGED <<mixCall, pageVars, nonGameVars>>

StoreNext ==
    /\ nextQuestion
    /\ UNCHANGED <<mixCall, pageVars, nonGameVars>>

StoreReset ==
    /\ resetSession
    /\ UNCHANGED <<mixCall, pageVars, nonGameVars>>

StoreCalls == StoreStart \/ StoreAnswer \/ StoreNext \/ StoreReset

\* ------------------------------------------- app/quiz/[category]/page.tsx
\* the page /quiz/[category]?count=..: the category and the count of the URL
Url(topic, count) == [topic |-> topic, count |-> count]
\* the URLs opened when the whole page is followed, and those opened when
\* only its loading of a long question set is
PageUrls == {Url("Database", <<"2">>), Url("JavaScript", <<"1", "0">>),
             Url("Nope", <<"1", "0">>)}
LoadUrls == {Url("SystemsDesign", count) :
                count \in {<<"1", "0">>, <<"2", "0">>, <<"3", "0">>}}

\* QuizPage not mounted: the dashboard is shown
NoPage ==
    [route |-> "/dashboard", mount |-> 0, url |-> Url("", <<>>), loading |-> FALSE,
     lastAnswerCorrect |-> null, answered |-> FALSE, fetching |-> FALSE]
Dashboard == [NoPage EXCEPT !.mount = page.mount]
NoServed == [status |-> ""]

\* the question set of a topic, the long one included
TopicSet(topic) ==
    IF topic = "SystemsDesign" THEN JsArray(LargeSet) ELSE getQuestionsByTopic(topic)

\* what the fetch of the load effect can resolve with for a signed-in user
\* and type=mixed: the route's answer to GET /api/quiz/questions/<topic>, or
\* its 401 once the session has expired, or a rejection of the fetch
ApiResponses(url) ==
    LET allQuestions == TopicSet(url.topic)
        b == Buckets(allQuestions.items, "u1", userProgress, today)
        none == [status |-> "", url |-> url, hasQuestions |-> FALSE,
                 questions |-> <<>>, due |-> <<>>, fresh |-> <<>>, scheduled |-> <<>>]
    IN  {[none EXCEPT !.status = "rejected"], [none EXCEPT !.status = "401"]} \cup
        IF allQuestions.length = 0
        THEN {[none EXCEPT !.status = "400"]}
        ELSE {[status |-> "200", url |-> url, hasQuestions |-> TRUE,
               questions |-> Slice(ordered, Count(Param(url.count))),
               due |-> b.due, fresh |-> b.fresh, scheduled |-> b.scheduled] :
                 ordered \in Ordered(b)}

\* the persist effect: it runs after a render in which isFinished or
\* answeredResults changed, and posts the answers of a finished session
Persist(finished, results, changed) ==
    sent' = IF changed /\ finished /\ results # <<>> THEN results ELSE sent

\* QuizPage mounts on url: the first render, which sees the store finished
\* or not and its results, then the load effect up to its fetch, then the
\* persist effect on what the first render saw
Mount(url, finished, results) ==
    /\ page' = [route |-> "/quiz", mount |-> page.mount + 1, url |-> url,
                loading |-> TRUE, lastAnswerCorrect |-> null, answered |-> FALSE,
                fetching |-> TRUE]
    /\ resetSession
    /\ Persist(finished, results, TRUE)

\* the user opens the quiz page from the dashboard
Visit ==
    /\ page.route = "/dashboard"
    /\ page.mount < MaxVisits
    /\ \E url \in PageUrls : Mount(url, isFinished, answeredResults)
    /\ UNCHANGED <<timers, served, mixCall, nonGameVars>>

\* the user opens the quiz page on the long question set
VisitLarge ==
    /\ page.route = "/dashboard"
    /\ page.mount < MaxVisits
    /\ \E url \in LoadUrls : Mount(url, isFinished, answeredResults)
    /\ UNCHANGED <<timers, served, mixCall, nonGameVars>>

\* the fetch of the load effect settles: startSession on the questions of the
\* answer (none when it has none or the fetch failed), then setLoading(false)
FetchResolve ==
    /\ page.fetching
    /\ \E response \in ApiResponses(page.url) :
          /\ startSession(IF response.hasQuestions THEN response.questions ELSE <<>>)
          /\ served' = response
    /\ page' = [page EXCEPT !.loading = FALSE, !.fetching = FALSE, !.answered = FALSE]
    /\ UNCHANGED <<timers, sent, mixCall, nonGameVars>>

\* the page renders the current question with its GameEngine
Playing ==
    /\ page.route = "/quiz"
    /\ ~page.loading
    /\ sessionQuestions # <<>>
    /\ ~isFinished
currentQuestion == sessionQuestions[currentQuestionIndex + 1]

\* the user picks an option of the current question: onAnswered
Answer ==
    /\ Playing
    /\ ~page.answered
    /\ currentQuestion.type \in VALID_TYPES
    /\ \E isCorrect \in BOOLEAN :
          /\ page' = [page EXCEPT
                !.lastAnswerCorrect = IF isCorrect THEN "true" ELSE "false",
                !.answered = TRUE]
          /\ answerQuestion(currentQuestion.id, isCorrect, IF isCorrect THEN 5 ELSE 2)
          /\ timers' = IF isCorrect
                        THEN timers (+) SetToBag({[mount |-> page.mount]})
                        ELSE timers
    /\ UNCHANGED <<served, sent, mixCall, nonGameVars>>

\* what follows nextQuestion on the page that is shown: a GameEngine for the
\* question the index moved to, and the persist effect
AfterNext ==
    /\ nextQuestion
    /\ Persist(isFinished', answeredResults,
               page.route = "/quiz" /\ isFinished' # isFinished)

\* a callback of setTimeout runs: setLastAnswerCorrect(null), which acts on
\* the page that set the timer if it is still mounted, then nextQuestion()
TimerFire ==
    /\ \E timer \in BagToSet(timers) :
          /\ timers' = timers (-) SetToBag({timer})
          /\ AfterNext
          /\ page' = [page EXCEPT
                !.lastAnswerCorrect =
                    IF page.route = "/quiz" /\ timer.mount = page.mount THEN null ELSE @,
                !.answered =
                    IF currentQuestionIndex' # currentQuestionIndex THEN FALSE ELSE @]
    /\ UNCHANGED <<served, mixCall, nonGameVars>>

\* Next Question offered after a wrong answer unless the question is the last
ClickNext_NotOnLast ==
    /\ Playing
    /\ page.lastAnswerCorrect = "false"
    /\ currentQuestionIndex + 1 < Len(sessionQuestions)
    /\ AfterNext
    /\ page' = [page EXCEPT
          !.lastAnswerCorrect = null,
          !.answered = IF currentQuestionIndex' # currentQuestionIndex THEN FALSE ELSE @]
    /\ UNCHANGED <<timers, served, mixCall, nonGameVars>>

\* the user clicks Next Question, offered after a wrong answer
ClickNext ==
    /\ Playing
    /\ page.lastAnswerCorrect = "false"
    /\ AfterNext
    /\ page' = [page EXCEPT
          !.lastAnswerCorrect = null,
          !.answered = IF currentQuestionIndex' # currentQuestionIndex THEN FALSE ELSE @]
    /\ UNCHANGED <<timers, served, mixCall, nonGameVars>>

\* the user clicks Exit Session: router.push("/dashboard") and nothing else
ExitSession ==
    /\ Playing
    /\ page' = Dashboard
    /\ UNCHANGED <<storeVars, timers, served, sent, mixCall, nonGameVars>>

\* the user clicks Back to Topics, on the screen of a finished session
\* (resetSession first) or on the screen that tells there are no questions
BackToTopics ==
    /\ page.route = "/quiz"
    /\ ~page.loading
    /\ IF sessionQuestions = <<>>
       THEN UNCHANGED storeVars
       ELSE isFinished /\ resetSession
    /\ page' = Dashboard
    /\ UNCHANGED <<timers, served, sent, mixCall, nonGameVars>>

\* the user clicks Run Again: resetSession(), then window.location.reload(),
\* which ends every timer, creates the store anew and mounts the page again
\* on the store's initial state
RunAgain ==
    /\ page.route = "/quiz"
    /\ ~page.loading
    /\ sessionQuestions # <<>>
    /\ isFinished
    /\ page.mount < MaxVisits
    /\ timers' = EmptyBag
    /\ Mount(page.url, initialState.isFinished, initialState.answeredResults)
    /\ UNCHANGED <<served, mixCall, nonGameVars>>

PageNext ==
    \/ Visit \/ FetchResolve \/ Answer \/ TimerFire \/ ClickNext
    \/ ExitSession \/ BackToTopics \/ RunAgain

LoadNext == VisitLarge \/ FetchResolve

\* the page not opened yet
PageIdle ==
    /\ page = NoPage
    /\ timers = EmptyBag
    /\ served = NoServed
    /\ sent = <<>>

\* the store as create() leaves it
StoreIdle ==
    /\ sessionQuestions = initialState.sessionQuestions
    /\ currentQuestionIndex = initialState.currentQuestionIndex
    /\ score = initialState.score
    /\ isFinished = initialState.isFinished
    /\ answeredResults = initialState.answeredResults
    /\ lastSet = NoSet

\* the store and the page not in use
GameIdle ==
    /\ mixCall = NoMix
    /\ StoreIdle
    /\ PageIdle

\* the numbers of overdue and of new questions of the long set, the rest of
\* it being scheduled
LoadMixes == {<<0, 0>>, <<0, 1>>, <<1, 1>>, <<1, 10>>, <<2, 0>>, <<11, 0>>, <<0, 11>>}

\* the table before the long set is loaded: the first questions overdue, the
\* next ones new, the others scheduled
LoadStart ==
    /\ \E mix \in LoadMixes :
          userProgress =
              [k \in {<<"u1", LargeSet[i].id>> :
                         i \in (1..mix[1]) \cup ((mix[1] + mix[2] + 1)..Len(LargeSet))}
                 |-> IF \E i \in 1..mix[1] : k[2] = LargeSet[i].id
                     THEN DueOn(1) ELSE DueOn(2)]
    /\ lastActivity = [u \in UserIds |-> 0]
    /\ today = 1
    /\ SessionIdle
    /\ QuestionsIdle

\* the arguments of the call: a list of distinct questions and maxQuestions,
\* left out or given
MixStart ==
    \E questions \in Lists(MixQuestions),
       maxQuestions \in {undefined} \cup {Given(n) : n \in (-1)..MaxRequested} :
        mixCall = [called |-> FALSE, questions |-> questions,
                   maxQuestions |-> maxQuestions, terminated |-> FALSE,
                   interleaved |-> <<>>, result |-> <<>>]

\* calculateSM2 on its own
SM2Init == SM2Start /\ LimStart /\ underTest = "both" /\ AuthStart /\ QuizIdle /\ GameIdle
SpecSM2 == SM2Init /\ [][SM2Next]_vars

LimNext == Tick \/ CheckLogin \/ CheckRegister

AuthNext ==
    \/ RegisterPost \/ RegisterParse \/ RegisterHash \/ RegisterCreate
    \/ Authorize \/ AuthorizeFind \/ AuthorizeCompare \/ AuthorizeReturn

\* one limiter module exercised alone, either of the two
SoloInit == LimStart /\ underTest \in Limiters /\ AuthStart /\ SM2Idle /\ QuizIdle /\ GameIdle
SpecSolo == SoloInit /\ [][LimNext]_vars

\* the two authentication entry points serving overlapping requests; the clock
\* advances while the limiter runs, the requests all fall in one window
AuthInit == LimStart /\ underTest = "routes" /\ AuthStart /\ SM2Idle /\ QuizIdle /\ GameIdle
SpecAuth == AuthInit /\ [][AuthNext]_vars

\* POST /api/quiz/session serving overlapping submissions
SessionInit == SessionStart /\ LimStart /\ underTest = "both" /\ AuthStart /\ SM2Idle /\ GameIdle
SpecSession == SessionInit /\ [][SessionNext]_vars

\* GET /api/quiz/questions/[topic] serving a request
QuestionsInit == QuestionsStart /\ LimStart /\ underTest = "both" /\ AuthStart /\ SM2Idle /\ GameIdle
SpecQuestions == QuestionsInit /\ [][QuestionsNext]_vars

\* interleaveQuestions called on its own
InterleaveInit == MixStart /\ StoreIdle /\ PageIdle /\ LimStart /\ underTest = "both" /\ AuthStart /\ SM2Idle /\ QuizIdle
SpecInterleave == InterleaveInit /\ [][Interleave]_vars

\* the store's methods called in any order
StoreInit == LimStart /\ underTest = "both" /\ AuthStart /\ SM2Idle /\ QuizIdle /\ GameIdle
SpecStore == StoreInit /\ [][StoreCalls]_vars

\* the quiz page with the store, opened and left by a user
PageInit == LimStart /\ underTest = "both" /\ AuthStart /\ SM2Idle /\ QuizIdle /\ GameIdle
SpecPage == PageInit /\ [][PageNext]_vars

\* the same with a user who answers the question shown and clicks Next
\* Question when it is offered, a fetch that settles and timers that fire
SpecPageFair ==
    /\ SpecPage
    /\ WF_vars(FetchResolve) /\ WF_vars(Answer)
    /\ WF_vars(TimerFire) /\ WF_vars(ClickNext)

\* the quiz page loading a question set longer than a session
LoadInit == LoadStart /\ LimStart /\ underTest = "both" /\ AuthStart /\ SM2Idle /\ GameIdle
SpecLoad == LoadInit /\ [][LoadNext]_vars

\* both limiter modules exercised in one process
Init == LimStart /\ underTest = "both" /\ AuthStart /\ SM2Idle /\ QuizIdle /\ GameIdle
Spec == Init /\ [][LimNext]_vars

\* ------------------------------------------------------ limiter properties
Called == lastCall # NoCall
\* the entry of the key of the latest call, as the store holds it now
CalledEntry == EntryOf(StoreOf(lastCall.limiter), lastCall.ip)
\* the window of the key of the latest call
CalledWin == win[lastCall.limiter][lastCall.ip]
Blocked == Called /\ ~lastCall.result.allowed

\* C1: the calls of a key that fall in one window (the window opened by the
\* key's first call, or by its first call after the previous window ended) are
\* allowed up to the maxAttempts-th and blocked from the (maxAttempts+1)-th on.
C1_AllowedUpToMaxAttempts ==
    Called =>
        /\ lastCall.result.allowed <=> CalledWin.calls <= MaxAttempts(lastCall.limiter)
        /\ CalledWin.allowed <= MaxAttempts(lastCall.limiter)

C1_Witness ==
    /\ Blocked
    /\ lastCall.limiter = "login"
    /\ CalledWin.calls = LOGIN_MAX_ATTEMPTS + 1
    /\ CalledWin.allowed = LOGIN_MAX_ATTEMPTS
    /\ lastCall.now > CalledWin.start

\* C2: a call made at now >= resetAt of the key's entry (equality included, the
\* key blocked before or not) is allowed and leaves count = 1 and
\* resetAt = now + 15 minutes.
C2_ExpiredWindowReopens ==
    (Called /\ lastCall.before # NoEntry /\ lastCall.now >= lastCall.before.resetAt)
        => /\ lastCall.result.allowed
           /\ CalledEntry = [count |-> 1, resetAt |-> lastCall.now + 900000]

C2_Witness ==
    /\ Called
    /\ lastCall.before # NoEntry
    /\ lastCall.now = lastCall.before.resetAt
    /\ lastCall.wasBlocked
    /\ lastCall.result.allowed

\* C3 as claimed: of two blocked calls of a key in one window, the later one
\* returns a strictly smaller retryAfterSeconds.
C3_StrictlyDecreasing ==
    \A l \in Limiters, k \in Keys : \A b1, b2 \in blockedLog[l][k] :
        b1.at < b2.at => b2.retryAfterSeconds < b1.retryAfterSeconds

\* C3 amended: of two blocked calls of a key in one window, the later one never
\* returns a larger retryAfterSeconds, and returns a strictly smaller one when
\* it is made at least 1000 ms after the earlier one.
C3_DecreasingBySeconds ==
    \A l \in Limiters, k \in Keys : \A b1, b2 \in blockedLog[l][k] :
        b1.at < b2.at =>
            /\ b2.retryAfterSeconds <= b1.retryAfterSeconds
            /\ b2.at - b1.at >= 1000 => b2.retryAfterSeconds < b1.retryAfterSeconds

C3_Witness ==
    \E l \in Limiters, k \in Keys : \E b1, b2 \in blockedLog[l][k] :
        /\ b2.at - b1.at >= 1000
        /\ b2.retryAfterSeconds < b1.retryAfterSeconds

\* the entry of key k as far as calls at time t or later can see it
LiveEntry(st, k, t) == IF k \in DOMAIN st /\ t < st[k].resetAt THEN st[k] ELSE NoEntry

\* C4: a call leaves the live entry of every other key, and of every key of
\* the other limiter, as it was, and its own result is the result the same call
\* gets from a store that holds the entry of its own key only.
C4_KeysAndLimitersIndependent ==
    [][nCalls' # nCalls =>
        /\ \A l \in Limiters, k \in Keys :
              <<l, k>> # <<lastCall'.limiter, lastCall'.ip>> =>
                  LiveEntry(StoreOfNext(l), k, lastCall'.now)
                      = LiveEntry(StoreOf(l), k, lastCall'.now)
        /\ lastCall'.result =
              (IF lastCall'.limiter = "login"
               THEN checkLoginRateLimit(Restrict(loginStore, {lastCall'.ip}),
                                        lastCall'.ip, lastCall'.pruneNow, lastCall'.now)
               ELSE checkRateLimit(Restrict(registerStore, {lastCall'.ip}),
                                   lastCall'.ip, lastCall'.pruneNow, lastCall'.now)).result
    ]_vars

C4_Witness ==
    /\ Blocked
    /\ \E l \in Limiters, k \in Keys :
          /\ <<l, k>> # <<lastCall.limiter, lastCall.ip>>
          /\ LiveEntry(StoreOf(l), k, now) # NoEntry

\* C7 as claimed: the allowed calls of one key in any interval of 15 minutes
\* number at most maxAttempts.
C7_SlidingWindowCap ==
    \A l \in Limiters, k \in Keys : Len(allowedLog[l][k]) <= MaxAttempts(l)

\* C8: resetAt of the called key is the time of the first call of its current
\* window plus 900000 ms; a blocked call returns
\* ceil((resetAt - now) / 1000) and leaves the entry as it was; an allowed call
\* in an open window adds one to count and nothing else; a call blocked at the
\* instant the window opened returns 900.
C8_ResetAtFixedRetryAfter ==
    Called =>
        /\ CalledEntry.resetAt = CalledWin.start + 900000
        /\ Blocked =>
              /\ lastCall.result.retryAfterSeconds
                    = Ceil(CalledWin.start + 900000 - lastCall.now, 1000)
              /\ CalledEntry = lastCall.before
        /\ (lastCall.result.allowed /\ CalledWin.calls > 1) =>
              CalledEntry = [count   |-> lastCall.before.count + 1,
                             resetAt |-> lastCall.before.resetAt]
        /\ (Blocked /\ lastCall.now = CalledWin.start) =>
              lastCall.result.retryAfterSeconds = 900

C8_Witness ==
    /\ Blocked
    /\ lastCall.now = CalledWin.start
    /\ lastCall.result.retryAfterSeconds = 900

\* C9 as claimed: after a call made at time now the store of the called
\* limiter holds no entry with resetAt <= now.
C9_NoExpiredEntryAfterCall ==
    Called => \A k \in DOMAIN StoreOf(lastCall.limiter) :
                  StoreOf(lastCall.limiter)[k].resetAt > lastCall.now

\* ------------------------------------------- properties of the entry points

\* C5: with requests overlapping in one process, the N calls made for a key
\* since its window opened yield min(N, maxAttempts) allowed results, and while
\* the window is open the stored count is the number of allowed calls.
C5_NoLostUpdate ==
    \A l \in Limiters, k \in Keys :
        (win[l][k] # NoWin /\ now < win[l][k].start + WindowMs(l)) =>
            /\ win[l][k].allowed = Min(win[l][k].calls, MaxAttempts(l))
            /\ EntryOf(StoreOf(l), k).count = win[l][k].allowed

C5_Witness ==
    /\ Blocked
    /\ now < CalledWin.start + WindowMs(lastCall.limiter)
    /\ CalledWin.calls > REGISTER_MAX_ATTEMPTS
    /\ CalledEntry.count = REGISTER_MAX_ATTEMPTS
    /\ \E r1, r2 \in BagToSet(inflight) :
          r1.kind = "register" /\ r2.kind = "register" /\ r1.pc # r2.pc

\* the requests being handled and the one answered last
Attempts == BagToSet(inflight) \cup ({lastResponse} \ {NoResponse})
IsLimiterCheck(op) == op \in {"checkLoginRateLimit", "checkRateLimit"}

\* C6 as claimed: at both entry points the first operation of every attempt is
\* the rate-limit check, and a blocked attempt does nothing else: registration
\* answers it 429 with Retry-After = retryAfterSeconds.
C6_RateLimitBeforeCredentials ==
    /\ \A a \in Attempts : IsLimiterCheck(a.did[1])
    /\ lastResponse.limited = "blocked" =>
          /\ Len(lastResponse.did) = 1
          /\ lastResponse.kind = "register" =>
                /\ lastResponse.status = "429"
                /\ lastResponse.retryAfter = ToString(lastResponse.retryAfterSeconds)

\* ------------------------------------------------ properties of calculateSM2
\* C10: a call with quality 0, 1 or 2 returns repetition = 0 and interval = 1,
\* whatever previousInterval, previousRepetition and previousEF are.
C10_FailedRecallResets ==
    (sm2Result # NoResult /\ sm2Input.quality < 3) =>
        sm2Result.repetition = 0 /\ sm2Result.interval = 1

C10_Witness ==
    /\ sm2Result # NoResult
    /\ sm2Input.quality = 2
    /\ sm2Input.previousRepetition = 3
    /\ sm2Input.previousInterval = 15
    /\ sm2Result.repetition = 0
    /\ sm2Result.interval = 1

\* C11: a call with quality 3, 4 or 5 returns repetition = previousRepetition + 1,
\* with interval 1 when that repetition is 1 and interval 6 when it is 2,
\* whatever previousInterval was.
C11_SuccessfulRecallLadder ==
    (sm2Result # NoResult /\ sm2Input.quality >= 3) =>
        /\ sm2Result.repetition = sm2Input.previousRepetition + 1
        /\ sm2Result.repetition = 1 => sm2Result.interval = 1
        /\ sm2Result.repetition = 2 => sm2Result.interval = 6

C11_Witness ==
    /\ sm2Result # NoResult
    /\ sm2Input.quality = 4
    /\ sm2Input.previousRepetition = 1
    /\ sm2Input.previousInterval = 15
    /\ sm2Result.repetition = 2
    /\ sm2Result.interval = 6

\* n / 1000 rounded to the nearest integer is r (either neighbour at a half)
IsRounded(r, n) == 1000 * r - n \in -500..500

\* C12 as claimed: for quality >= 3 and a new repetition of 3 or more, the new
\* interval is round(previousInterval * easinessFactor), at least 1, with
\* easinessFactor the ease factor the same call returns.
C12_IntervalFromReturnedEF ==
    (sm2Result # NoResult /\ sm2Input.quality >= 3 /\ sm2Result.repetition >= 3) =>
        LET product == sm2Input.previousInterval * sm2Result.easinessFactor IN
        IF product < 1500 THEN sm2Result.interval = 1
        ELSE IsRounded(sm2Result.interval, product)

\* C12 amended: for quality >= 3 and a new repetition of 3 or more, the new
\* interval is round(previousInterval * max(1.3, previousEF)), at least 1: the
\* multiplier is the ease factor passed in, floored, not the one returned.
C12_IntervalFromFlooredPreviousEF ==
    (sm2Result # NoResult /\ sm2Input.quality >= 3 /\ sm2Result.repetition >= 3) =>
        LET floored == IF sm2Input.previousEF < 1300 THEN 1300
                       ELSE sm2Input.previousEF
            product == sm2Input.previousInterval * floored
        IN  IF product < 1500 THEN sm2Result.interval = 1
            ELSE IsRounded(sm2Result.interval, product)

C12_Witness ==
    /\ sm2Result # NoResult
    /\ sm2Input.quality = 5
    /\ sm2Input.previousRepetition = 2
    /\ sm2Input.previousInterval = 6
    /\ sm2Input.previousEF = 2500
    /\ sm2Result.repetition = 3
    /\ sm2Result.interval = 15
    /\ sm2Result.easinessFactor = 2600

\* the change of the ease factor for each quality, in thousandths
EaseChange == [q \in Qualities |->
    CASE q = 5 -> 100 [] q = 4 -> 0 [] q = 3 -> -140
      [] q = 2 -> -320 [] q = 1 -> -540 [] q = 0 -> -800]

\* C13: every call, failed recalls included, returns easinessFactor =
\* max(1.3, max(1.3, previousEF) + d(quality)) rounded to 2 decimals, with
\* d = +0.10, 0.00, -0.14, -0.32, -0.54, -0.80 for quality 5, 4, 3, 2, 1, 0;
\* quality 2 with previousInterval 6, previousRepetition 3, previousEF 2.5
\* gives repetition 0, interval 1, easinessFactor 2.18.
C13_EaseFactorRecomputed ==
    sm2Result # NoResult =>
        LET floored == IF sm2Input.previousEF < 1300 THEN 1300
                       ELSE sm2Input.previousEF
            moved == floored + EaseChange[sm2Input.quality]
            exact == IF moved < 1300 THEN 1300 ELSE moved
        IN  /\ sm2Result.easinessFactor % 10 = 0
            /\ sm2Result.easinessFactor - exact \in -5..5
            /\ sm2Input = [quality |-> 2, previousInterval |-> 6,
                           previousRepetition |-> 3, previousEF |-> 2500] =>
                  /\ sm2Result.repetition = 0
                  /\ sm2Result.interval = 1
                  /\ sm2Result.easinessFactor = 2180

C13_Witness ==
    /\ sm2Input = [quality |-> 2, previousInterval |-> 6,
                   previousRepetition |-> 3, previousEF |-> 2500]
    /\ sm2Result # NoResult
    /\ sm2Result.easinessFactor = 2180

\* the first three calls are a chain of quality-5 answers that starts from
\* previousRepetition 0
ThreeFives ==
    /\ Len(chainLog) >= 3
    /\ chainLog[1].in.previousRepetition = 0
    /\ \A i \in 1..3 : chainLog[i].in.quality = 5

\* C15 as claimed: along such a chain the intervals are 1, then 6, then at least
\* 14, whatever the starting previousEF, and never decrease.
C15_ThreeFivesReachFourteen ==
    ThreeFives =>
        /\ chainLog[1].out.interval = 1
        /\ chainLog[2].out.interval = 6
        /\ chainLog[3].out.interval >= 14
        /\ chainLog[1].out.interval <= chainLog[2].out.interval
        /\ chainLog[2].out.interval <= chainLog[3].out.interval

\* C15 amended: along such a chain the intervals are 1, then 6, then at least 9,
\* and never decrease; the third is at least 14 when the starting previousEF is
\* at least 2.1.
C15_ThreeFivesLadder ==
    ThreeFives =>
        /\ chainLog[1].out.interval = 1
        /\ chainLog[2].out.interval = 6
        /\ chainLog[3].out.interval >= 9
        /\ chainLog[1].in.previousEF >= 2100 => chainLog[3].out.interval >= 14
        /\ chainLog[1].out.interval <= chainLog[2].out.interval
        /\ chainLog[2].out.interval <= chainLog[3].out.interval

C15_Witness ==
    /\ ThreeFives
    /\ chainLog[1].in.previousEF = 2500
    /\ chainLog[3].out.interval = 16
    /\ chainLog[3].out.repetition = 3

\* ------------------------------------ properties of POST /api/quiz/session
\* C14: every row POST /api/quiz/session writes has interval >= 1 and
\* easinessFactor >= 1.3, after any sequence of graded answers for the pair and
\* whatever row, sound or corrupt, the table held for it before.
C14_WrittenRowsWithinBounds ==
    /\ lastWrite # NoWrite =>
          /\ lastWrite.row.interval >= 1
          /\ lastWrite.row.easinessFactor >= 1300
    /\ \A p \in BagToSet(posts) : \A i \in 1..Len(p.scheduled) :
          p.scheduled[i].interval >= 1

\* a successful recall written over a corrupt row (interval 0, ease factor 0.5)
C14_Witness ==
    /\ lastWrite # NoWrite
    /\ lastWrite.row.repetition = 4
    /\ lastWrite.row.interval = 1
    /\ lastWrite.row.easinessFactor >= 1300
    /\ \E p \in BagToSet(posts) :
          /\ p.saved >= 1
          /\ "d1" \in DOMAIN p.existingMap
          /\ p.existingMap["d1"].interval = 0
          /\ p.existingMap["d1"].easinessFactor = 500

\* -------------------------- properties of GET /api/quiz/questions/[topic]
\* the request was answered with a list of questions
Answered == quizResponse.status = "200"
Returned == quizResponse.questions
Ids(list) == {list[i].id : i \in 1..Len(list)}
\* the requesting user's row of question id, and the bucket it puts the
\* question in: 0 overdue, 1 new, 2 scheduled
HasRow(id) == <<quizResponse.userId, id>> \in DOMAIN userProgress
RowOf(id) == userProgress[<<quizResponse.userId, id>>]
Rank(id) == IF ~HasRow(id) THEN 1 ELSE IF RowOf(id).nextReview <= today THEN 0 ELSE 2
Overdue(list) == {id \in Ids(list) : Rank(id) = 0}

\* C16: in the returned list no new or scheduled question precedes an overdue
\* one and no scheduled one precedes a new one; a question is returned only if
\* every pool question of a higher-priority bucket is returned; the first
\* min(count, number of overdue) items are overdue.
C16_OverdueNewScheduled ==
    Answered =>
        /\ \A i, j \in 1..Len(Returned) :
              i < j => Rank(Returned[i].id) <= Rank(Returned[j].id)
        /\ \A id \in Ids(Returned) : \A other \in Ids(quizResponse.pool) :
              Rank(other) < Rank(id) => other \in Ids(Returned)
        /\ \A i \in 1..Min(quizResponse.count,
                           Cardinality(Overdue(quizResponse.pool))) :
              i <= Len(Returned) /\ Rank(Returned[i].id) = 0

\* an overdue and a new question returned, a scheduled one cut by count
C16_Witness ==
    /\ Answered
    /\ quizResponse.count = 2
    /\ Len(Returned) = 2
    /\ Rank(Returned[1].id) = 0
    /\ Rank(Returned[2].id) = 1
    /\ \E id \in Ids(quizResponse.pool) : Rank(id) = 2

\* the bucket lists of the handler
BucketsOf == <<quizResponse.due, quizResponse.fresh, quizResponse.scheduled>>

\* C17: every question of the filtered pool is in exactly one bucket: new iff the
\* user has no row for it, overdue iff its row has nextReview <= now, scheduled
\* iff its row has nextReview > now; together the buckets hold each pool
\* question exactly once.
C17_BucketsPartitionPool ==
    (Answered /\ quizResponse.pool # <<>>) =>
        /\ \A id \in Ids(quizResponse.pool) :
              /\ id \in Ids(quizResponse.fresh) <=> ~HasRow(id)
              /\ id \in Ids(quizResponse.due) <=>
                    (HasRow(id) /\ RowOf(id).nextReview <= today)
              /\ id \in Ids(quizResponse.scheduled) <=>
                    (HasRow(id) /\ RowOf(id).nextReview > today)
              /\ Cardinality({k \in 1..3 : id \in Ids(BucketsOf[k])}) = 1
        /\ \A k \in 1..3 :
              /\ Ids(BucketsOf[k]) \subseteq Ids(quizResponse.pool)
              /\ Cardinality(Ids(BucketsOf[k])) = Len(BucketsOf[k])
        /\ Len(quizResponse.due) + Len(quizResponse.fresh)
              + Len(quizResponse.scheduled) = Len(quizResponse.pool)

\* a question due exactly now in the overdue bucket, the other buckets filled
C17_Witness ==
    /\ Answered
    /\ \E id \in Ids(quizResponse.due) : RowOf(id).nextReview = today
    /\ quizResponse.fresh # <<>>
    /\ quizResponse.scheduled # <<>>

\* the count the claim gives for each value of ?count=
ClaimedCount(param) ==
    CASE ~param.present -> 10
      [] param = Param(<<"a", "b", "c">>) -> 10
      [] param = Param(<<"0">>) -> 1
      [] param = Param(<<"2">>) -> 2
      [] param = Param(<<"3", "x">>) -> 3
      [] param = Param(<<"3", "1">>) -> 30

Eligible ==
    IF quizResponse.topic # "Remix" THEN Ids(questionsData[quizResponse.topic])
    ELSE LET listed == {quizResponse.query.topics.value[i].key :
                          i \in 1..Len(quizResponse.query.topics.value)}
             ofListed == UNION {Ids(questionsData[t]) :
                                  t \in listed \cap DOMAIN questionsData}
         IN  {id \in QuestionIds :
                 /\ HasRow(id)
                 /\ Truthy(quizResponse.query.topics) => id \in ofListed}

\* C19: with type one of QUIZ_SIMPLE, TRUE_FALSE, FILL_THE_BLANK every returned
\* question has that type; with type 'mixed', absent or anything else no type
\* filter applies: the questions of every type stay in the pool.
C19_TypeFilter ==
    Answered =>
        LET type == quizResponse.query.type IN
        IF type.present /\ type.value \in {"QUIZ_SIMPLE", "TRUE_FALSE", "FILL_THE_BLANK"}
        THEN \A i \in 1..Len(Returned) : Returned[i].type = type.value
        ELSE /\ quizResponse.typeFilter = null
             /\ Ids(quizResponse.pool) = Eligible

\* the two QUIZ_SIMPLE questions of a topic that also has a TRUE_FALSE one
C19_Witness ==
    /\ Answered
    /\ quizResponse.topic = "Database"
    /\ quizResponse.query.type = Param("QUIZ_SIMPLE")
    /\ Ids(Returned) = {"d1", "d3"}

\* the request was answered, and made with a session
AnsweredUser == quizResponse.status # "" /\ quizResponse.userId # ""

\* C20 as claimed: a topic other than Remix that has no question set is answered
\* 400 'Unknown topic.' before any progress lookup; a known topic, or Remix,
\* whose pool is empty after the filters is answered with an empty list.
C20_UnknownTopicVersusEmptyPool ==
    AnsweredUser =>
        IF quizResponse.topic \notin DOMAIN questionsData \cup {"Remix"}
        THEN /\ quizResponse.status = "400"
             /\ quizResponse.error = "Unknown topic."
             /\ quizResponse.did = <<"getServerSession">>
        ELSE /\ quizResponse.status = "200"
             /\ quizResponse.pool = <<>> => Returned = <<>>

\* the topics a request lists
ListedTopics ==
    {quizResponse.query.topics.value[i].key :
        i \in 1..Len(quizResponse.query.topics.value)}

\* C21: in Remix mode every returned question has a progress record of the
\* requesting user, and when the request carries a topics list (a non-empty
\* topics parameter) every returned question is a question of a listed topic.
C21_RemixStudiedAndListed ==
    (Answered /\ quizResponse.topic = "Remix") =>
        \A i \in 1..Len(Returned) :
            /\ <<quizResponse.userId, Returned[i].id>> \in DOMAIN userProgress
            /\ Truthy(quizResponse.query.topics) =>
                  \E key \in ListedTopics \cap DOMAIN questionsData :
                     \E j \in 1..Len(questionsData[key]) :
                        questionsData[key][j] = Returned[i]

\* a Remix answer with questions, for a topics list that leaves out a topic
\* the user has studied, while another user holds a row the user has not
C21_Witness ==
    /\ Answered /\ quizResponse.topic = "Remix"
    /\ Returned # <<>>
    /\ Truthy(quizResponse.query.topics)
    /\ ListedTopics = {"Database"}
    /\ <<quizResponse.userId, "j1">> \in DOMAIN userProgress
    /\ <<"u2", "d1">> \in DOMAIN userProgress
    /\ <<quizResponse.userId, "d1">> \notin DOMAIN userProgress
    /\ quizResponse.userId = "u1"

NextRows(key) ==
    LET hasPrev == key \in DOMAIN userProgress
        prev == userProgress[key]
    IN  {[repetition |-> sm2.repetition, interval |-> sm2.interval,
          easinessFactor |-> sm2.easinessFactor,
          nextReview |-> today + sm2.nextReview] :
            sm2 \in {calculateSM2(
                        [quality |-> quality,
                         previousInterval |-> IF hasPrev THEN prev.interval ELSE 1,
                         previousRepetition |-> IF hasPrev THEN prev.repetition ELSE 0,
                         previousEF |-> IF hasPrev THEN prev.easinessFactor ELSE 2500],
                        ties) : quality \in SessionQualities, ties \in Ties}}

\* C28: graded answers of one (user, question) pair are applied one after
\* another: whenever the stored record of a pair changes, the new record is
\* calculateSM2 applied to the record it replaces (to the defaults when the
\* pair had no record), never a result computed from an older record.
C28_AppliedOneAfterAnother ==
    [][\A key \in DOMAIN userProgress' :
          (key \notin DOMAIN userProgress \/ userProgress'[key] # userProgress[key])
              => userProgress'[key] \in NextRows(key)]_vars

\* the categories of the questions of a list
Categories(list) == {list[i].category : i \in 1..Len(list)}
\* maxQuestions of the direct call
Requested == IF mixCall.maxQuestions.given THEN mixCall.maxQuestions.value ELSE 10
\* the first n items of list belong to n different categories
MixedStart(list, n) ==
    /\ Len(list) >= n
    /\ Cardinality(Categories(SubSeq(list, 1, n))) = n

\* C24 as stated: the first C items of the sequence interleaveQuestions
\* returns belong to C different categories, C being the number of categories
\* of the input, when C <= maxQuestions.
C24_ReturnedStartsMixed ==
    (mixCall.called /\ Cardinality(Categories(mixCall.questions)) <= Requested) =>
        MixedStart(mixCall.result, Cardinality(Categories(mixCall.questions)))

\* C24 amended: the first C items of the sequence interleaveQuestions builds
\* before its final shuffle belong to C different categories, and the
\* sequence it returns holds the same items, so that every category of the
\* input is present in it, in some order.
C24_InterleavedStartsMixed ==
    (mixCall.called /\ Cardinality(Categories(mixCall.questions)) <= Requested) =>
        /\ MixedStart(mixCall.interleaved, Cardinality(Categories(mixCall.questions)))
        /\ Ids(mixCall.result) = Ids(mixCall.interleaved)
        /\ Categories(mixCall.result) = Categories(mixCall.questions)

\* three questions of two categories, mixed before the final shuffle and
\* returned with the two questions of one category first
C24_Witness ==
    /\ mixCall.called
    /\ Len(mixCall.questions) = 3
    /\ Requested = 3
    /\ Cardinality(Categories(mixCall.questions)) = 2
    /\ MixedStart(mixCall.interleaved, 2)
    /\ ~MixedStart(mixCall.result, 2)

\* C25: interleaveQuestions terminates for every input and returns
\* min(max(maxQuestions, 0), number of questions) items, each of them an
\* input question, none of them twice.
C25_TerminatesWithCount ==
    mixCall.called =>
        /\ mixCall.terminated
        /\ Len(mixCall.result) = Min(Max(Requested, 0), Len(mixCall.questions))
        /\ \A i \in 1..Len(mixCall.result) :
              /\ \E j \in 1..Len(mixCall.questions) :
                    mixCall.questions[j] = mixCall.result[i]
              /\ \A j \in 1..Len(mixCall.result) :
                    mixCall.result[i] = mixCall.result[j] => i = j

\* a call that asks for more questions than there are, in one category, and
\* returns them all
C25_Witness ==
    /\ mixCall.called
    /\ mixCall.terminated
    /\ Len(mixCall.questions) = 2
    /\ Cardinality(Categories(mixCall.questions)) = 1
    /\ Requested > 2
    /\ Len(mixCall.result) = 2

\* C30: whenever sessionQuestions is not empty the current question exists
\* (0 <= currentQuestionIndex < sessionQuestions.length) and score never
\* exceeds the number of answers; isFinished, once true, stays true until
\* startSession or resetSession is called.
C30_StoreInvariants ==
    /\ [](/\ sessionQuestions # <<>> =>
               /\ 0 <= currentQuestionIndex
               /\ currentQuestionIndex < Len(sessionQuestions)
           /\ score <= Len(answeredResults))
    /\ [][(isFinished /\ ~isFinished') =>
             lastSet'.method \in {"startSession", "resetSession"}]_vars

\* nextQuestion called on the last of two questions, two answers given, one
\* of them correct: the index stays on the last question and isFinished is set
C30_Witness ==
    /\ Len(sessionQuestions) = 2
    /\ currentQuestionIndex = 1
    /\ isFinished
    /\ score = 1
    /\ Len(answeredResults) = 2
    /\ lastSet.method = "nextQuestion"

\* C29: on the quiz page with the store, a question is passed only after it
\* was answered in the current session: currentQuestionIndex never exceeds
\* the number of answers, whatever the user does, Exit Session during the
\* delay after a correct answer included.
C29_PassedOnlyAfterAnswer ==
    currentQuestionIndex <= Len(answeredResults)

Started == served.status = "200" /\ lastSet.method = "startSession"

\* C23: the questions presented in a session (sessionQuestions after
\* startSession received the list the route served) include a new question
\* only if they include every overdue question of the pool, and a scheduled
\* one only if they include every overdue and every new one, for each of the
\* counts 10, 20 and 30.
C23_SessionKeepsPriority ==
    Started =>
        LET presented == Ids(sessionQuestions) IN
        /\ presented \cap Ids(served.fresh) # {} => Ids(served.due) \subseteq presented
        /\ presented \cap Ids(served.scheduled) # {} =>
              Ids(served.due) \cup Ids(served.fresh) \subseteq presented

====
